---- MODULE Spec2Model ----
(***************************************************************************)
(* Pre-commit validation layer of the al-muhaasib satellite.               *)
(*                                                                         *)
(* The document store is a map  collection -> key -> record data.  A write *)
(* attempt is validated by assert_set_doc (the dispatcher of lib.rs) and,  *)
(* when accepted, committed by the host.  The rule pipelines are those of  *)
(* src/satellite/src/modules.                                              *)
(*                                                                         *)
(* Units: money is counted in kobo (1/100 naira) so that the 0.01          *)
(* tolerance is 1; bank amounts are counted in whole naira; the clock is   *)
(* read in whole hours since 1970 and timestamps are 64-bit nanosecond     *)
(* counts held as four 16-bit limbs.  overflow_checks is the build option  *)
(* that decides whether integer overflow panics or wraps.                  *)
(***************************************************************************)
EXTENDS Integers, Sequences, FiniteSets, TLC

VARIABLES store, pend, focus, now, overflow_checks

vars == <<store, pend, focus, now, overflow_checks>>

(***************************************************************************)
(* Bounds of the model.                                                    *)
(***************************************************************************)
NumKeys == 2
NumWriters == 2
ClockStart == 474852

KeyNames == <<"k1", "k2", "k3", "k4">>
Keys == {KeyNames[i] : i \in 1..NumKeys}
EmptyKey == ""
Writers == 1..NumWriters

(***************************************************************************)
(* Option values.  Option<String> is NONE or a string; Option<u64> is      *)
(* NoTime or a number; Option<Doc> is a sequence of length at most one.    *)
(***************************************************************************)
NONE == "<none>"
NoTime == 0 - 1
NoAmount == 0 - 2000000000

(***************************************************************************)
(* Strings.  TLC strings are atomic, so every string whose characters the  *)
(* code inspects (len, split, starts_with, chars) is spelled out here.     *)
(***************************************************************************)
Chars(s) ==
  CASE s = "EXP-2024-AB12CD34" -> <<"E", "X", "P", "-", "2", "0", "2", "4", "-", "A", "B", "1", "2", "C", "D", "3", "4">>
  [] s = "EXP-2024-ZZ99YY88" -> <<"E", "X", "P", "-", "2", "0", "2", "4", "-", "Z", "Z", "9", "9", "Y", "Y", "8", "8">>
  [] s = "INV-2024-AB12CD34" -> <<"I", "N", "V", "-", "2", "0", "2", "4", "-", "A", "B", "1", "2", "C", "D", "3", "4">>
  [] s = "EXP-24-AB12" -> <<"E", "X", "P", "-", "2", "4", "-", "A", "B", "1", "2">>
  [] s = "PAY-2024-AB12CD34" -> <<"P", "A", "Y", "-", "2", "0", "2", "4", "-", "A", "B", "1", "2", "C", "D", "3", "4">>
  [] s = "PAY-2024-ZZ99YY88" -> <<"P", "A", "Y", "-", "2", "0", "2", "4", "-", "Z", "Z", "9", "9", "Y", "Y", "8", "8">>
  [] s = "REC-2024-AB12CD34" -> <<"R", "E", "C", "-", "2", "0", "2", "4", "-", "A", "B", "1", "2", "C", "D", "3", "4">>
  [] s = "PAY-24-AB12" -> <<"P", "A", "Y", "-", "2", "4", "-", "A", "B", "1", "2">>
  [] s = "SAL-2024-03-AB12CD" -> <<"S", "A", "L", "-", "2", "0", "2", "4", "-", "0", "3", "-", "A", "B", "1", "2", "C", "D">>
  [] s = "SAL-2024-03-ZZ99YY" -> <<"S", "A", "L", "-", "2", "0", "2", "4", "-", "0", "3", "-", "Z", "Z", "9", "9", "Y", "Y">>
  [] s = "PAY-2024-03-AB12CD" -> <<"P", "A", "Y", "-", "2", "0", "2", "4", "-", "0", "3", "-", "A", "B", "1", "2", "C", "D">>
  [] s = "SAL-2024-13-AB12CD" -> <<"S", "A", "L", "-", "2", "0", "2", "4", "-", "1", "3", "-", "A", "B", "1", "2", "C", "D">>
  [] s = "SAL-2024-00-AB12CD" -> <<"S", "A", "L", "-", "2", "0", "2", "4", "-", "0", "0", "-", "A", "B", "1", "2", "C", "D">>
  [] s = "SAL-2024-12-ab12cd" -> <<"S", "A", "L", "-", "2", "0", "2", "4", "-", "1", "2", "-", "a", "b", "1", "2", "c", "d">>
  [] s = "SAL-24-03-AB12CD" -> <<"S", "A", "L", "-", "2", "4", "-", "0", "3", "-", "A", "B", "1", "2", "C", "D">>
  [] s = "SAL-2024-03-ABCDé" -> <<"S", "A", "L", "-", "2", "0", "2", "4", "-", "0", "3", "-", "A", "B", "C", "D", "é">>
  [] s = "SAL-2024-3-AB12CD7" -> <<"S", "A", "L", "-", "2", "0", "2", "4", "-", "3", "-", "A", "B", "1", "2", "C", "D", "7">>
  [] s = "SAL-2024-03-AB12C" -> <<"S", "A", "L", "-", "2", "0", "2", "4", "-", "0", "3", "-", "A", "B", "1", "2", "C">>
  [] s = "SAL_2024-03-AB12CD" -> <<"S", "A", "L", "_", "2", "0", "2", "4", "-", "0", "3", "-", "A", "B", "1", "2", "C", "D">>
  [] s = "SAL-20X4-03-AB12CD" -> <<"S", "A", "L", "-", "2", "0", "X", "4", "-", "0", "3", "-", "A", "B", "1", "2", "C", "D">>
  [] s = "SAL-2024-03-AB12C#" -> <<"S", "A", "L", "-", "2", "0", "2", "4", "-", "0", "3", "-", "A", "B", "1", "2", "C", "#">>
  [] s = "SAL-2024-0A-AB12CD" -> <<"S", "A", "L", "-", "2", "0", "2", "4", "-", "0", "A", "-", "A", "B", "1", "2", "C", "D">>
  [] s = "2024-03-15" -> <<"2", "0", "2", "4", "-", "0", "3", "-", "1", "5">>
  [] s = "2024-03-01" -> <<"2", "0", "2", "4", "-", "0", "3", "-", "0", "1">>
  [] s = "2024-03-31" -> <<"2", "0", "2", "4", "-", "0", "3", "-", "3", "1">>
  [] s = "2024-02-01" -> <<"2", "0", "2", "4", "-", "0", "2", "-", "0", "1">>
  [] s = "2024-06-30" -> <<"2", "0", "2", "4", "-", "0", "6", "-", "3", "0">>
  [] s = "1970-01-01" -> <<"1", "9", "7", "0", "-", "0", "1", "-", "0", "1">>
  [] s = "1960-01-01" -> <<"1", "9", "6", "0", "-", "0", "1", "-", "0", "1">>
  [] s = "9999-12-31" -> <<"9", "9", "9", "9", "-", "1", "2", "-", "3", "1">>
  [] s = "2600-01-01" -> <<"2", "6", "0", "0", "-", "0", "1", "-", "0", "1">>
  [] s = "2024-01-31" -> <<"2", "0", "2", "4", "-", "0", "1", "-", "3", "1">>
  [] s = "1974-03-16" -> <<"1", "9", "7", "4", "-", "0", "3", "-", "1", "6">>
  [] s = "15/03/2024" -> <<"1", "5", "/", "0", "3", "/", "2", "0", "2", "4">>
  [] s = "" -> <<>>
  [] s = "   " -> <<" ", " ", " ">>
  [] s = "too short" -> <<"t", "o", "o", " ", "s", "h", "o", "r", "t">>
  [] s = "Déjà payé" -> <<"D", "é", "j", "à", " ", "p", "a", "y", "é">>
  [] s = "duplicate invoice" -> <<"d", "u", "p", "l", "i", "c", "a", "t", "e", " ", "i", "n", "v", "o", "i", "c", "e">>
  [] s = "ADM-001" -> <<"A", "D", "M", "-", "0", "0", "1">>
  [] s = "ADM001" -> <<"A", "D", "M", "0", "0", "1">>
  [] s = "Science" -> <<"S", "c", "i", "e", "n", "c", "e">>
  [] s = "Sci#nce" -> <<"S", "c", "i", "#", "n", "c", "e">>
  [] s = "Utilities" -> <<"U", "t", "i", "l", "i", "t", "i", "e", "s">>
  [] s = "UTILITIES" -> <<"U", "T", "I", "L", "I", "T", "I", "E", "S">>
  [] s = "utilities" -> <<"u", "t", "i", "l", "i", "t", "i", "e", "s">>
  [] s = "Transport" -> <<"T", "r", "a", "n", "s", "p", "o", "r", "t">>
  [] s = "IT" -> <<"I", "T">>
  [] s = "Stationery" -> <<"S", "t", "a", "t", "i", "o", "n", "e", "r", "y">>
  [] s = "sch1" -> <<"s", "c", "h", "1">>
  [] s = "Merit" -> <<"M", "e", "r", "i", "t">>
  [] s = "fc1" -> <<"f", "c", "1">>
  [] s = "fc9" -> <<"f", "c", "9">>
  [] s = "Tuition" -> <<"T", "u", "i", "t", "i", "o", "n">>
  [] s = "tuition" -> <<"t", "u", "i", "t", "i", "o", "n">>
  [] s = "books" -> <<"b", "o", "o", "k", "s">>
  [] s = "raffle" -> <<"r", "a", "f", "f", "l", "e">>
  [] s = "hr" -> <<"h", "r">>
  [] s = "cfo" -> <<"c", "f", "o">>
  [] s = "bursar" -> <<"b", "u", "r", "s", "a", "r">>
  [] s = "ADM1" -> <<"A", "D", "M", "1">>
  [] s = "adm1" -> <<"a", "d", "m", "1">>
  [] s = "ADM2" -> <<"A", "D", "M", "2">>
  [] s = "cls1" -> <<"c", "l", "s", "1">>
  [] s = "cls9" -> <<"c", "l", "s", "9">>
  [] s = "stu1" -> <<"s", "t", "u", "1">>
  [] s = "Amina Bello" -> <<"A", "m", "i", "n", "a", " ", "B", "e", "l", "l", "o">>
  [] s = "fs1" -> <<"f", "s", "1">>
  [] s = "2024/2025" -> <<"2", "0", "2", "4", "/", "2", "0", "2", "5">>
  [] s = "S001" -> <<"S", "0", "0", "1">>
  [] s = "S002" -> <<"S", "0", "0", "2">>

Digits == {"0", "1", "2", "3", "4", "5", "6", "7", "8", "9"}
Letters == {"A", "B", "C", "D", "E", "F", "G", "H", "I", "J", "K", "L", "M", "N", "O", "P", "Q", "R", "S", "T", "U", "V", "W", "X", "Y", "Z",
            "a", "b", "c", "d", "e", "f", "g", "h", "i", "j", "k", "l", "m", "n", "o", "p", "q", "r", "s", "t", "u", "v", "w", "x", "y", "z",
            "é", "à"}

\* char::is_numeric / char::is_alphanumeric on the characters in use
is_numeric(c) == c \in Digits
is_alphanumeric(c) == c \in Digits \cup Letters

\* the number of bytes of a character in UTF-8, for the characters in use
Utf8Width(c) == IF c \in {"é", "à"} THEN 2 ELSE 1

RECURSIVE Utf8Len(_)
Utf8Len(cs) == IF cs = <<>> THEN 0 ELSE Utf8Width(Head(cs)) + Utf8Len(Tail(cs))

\* str::len: the length in bytes
StrLen(s) == Utf8Len(Chars(s))

\* str::trim().is_empty()
TrimIsEmpty(s) == \A i \in 1..Len(Chars(s)) : Chars(s)[i] = " "

\* str::to_lowercase on the names in use
to_lowercase(s) ==
  CASE s = "Acme" -> "acme"
  [] s = "ACME" -> "acme"
  [] s = "ADM1" -> "adm1"
  [] s = "Utilities" -> "utilities"
  [] s = "UTILITIES" -> "utilities"
  [] OTHER -> s

\* str::starts_with
starts_with(s, prefix) ==
  /\ Len(Chars(s)) >= Len(prefix)
  /\ SubSeq(Chars(s), 1, Len(prefix)) = prefix

\* str::split(sep).collect(): the pieces of cs between the separators
RECURSIVE SplitFrom(_, _, _, _)
SplitFrom(cs, sep, i, piece) ==
  IF i > Len(cs) THEN <<piece>>
  ELSE IF cs[i] = sep THEN <<piece>> \o SplitFrom(cs, sep, i + 1, <<>>)
  ELSE SplitFrom(cs, sep, i + 1, Append(piece, cs[i]))

split(s, sep) == SplitFrom(Chars(s), sep, 1, <<>>)

AllChars(piece, P(_)) == \A i \in 1..Len(piece) : P(piece[i])

DigitValue(c) ==
  CASE c = "0" -> 0 [] c = "1" -> 1 [] c = "2" -> 2 [] c = "3" -> 3 [] c = "4" -> 4
  [] c = "5" -> 5 [] c = "6" -> 6 [] c = "7" -> 7 [] c = "8" -> 8 [] c = "9" -> 9

\* str::parse::<u32>() of a piece of digits
RECURSIVE ParseDigits(_)
ParseDigits(piece) ==
  IF piece = <<>> THEN 0
  ELSE 10 * ParseDigits(SubSeq(piece, 1, Len(piece) - 1)) + DigitValue(piece[Len(piece)])

\* parse().unwrap_or(0)
ParseOrZero(piece) ==
  IF piece # <<>> /\ AllChars(piece, is_numeric) THEN ParseDigits(piece) ELSE 0

(***************************************************************************)
(* validation_utils.rs                                                     *)
(***************************************************************************)
is_valid_date_format(date) ==
  LET parts == split(date, "-") IN
  /\ StrLen(date) = 10
  /\ Len(parts) = 3
  /\ Utf8Len(parts[1]) = 4 /\ AllChars(parts[1], is_numeric)
  /\ Utf8Len(parts[2]) = 2 /\ AllChars(parts[2], is_numeric)
  /\ Utf8Len(parts[3]) = 2 /\ AllChars(parts[3], is_numeric)
  /\ ParseOrZero(parts[2]) >= 1 /\ ParseOrZero(parts[2]) <= 12
  /\ ParseOrZero(parts[3]) >= 1 /\ ParseOrZero(parts[3]) <= 31

\* Ok((year, month, day)) as a one-element sequence, Err(()) as the empty one
parse_date(date) ==
  LET parts == split(date, "-") IN
  IF /\ Len(parts) = 3
     /\ \A i \in 1..3 : parts[i] # <<>> /\ AllChars(parts[i], is_numeric)
  THEN << <<ParseDigits(parts[1]), ParseDigits(parts[2]), ParseDigits(parts[3])>> >>
  ELSE <<>>

HoursPerDay == 24

\* u64 values are sequences of four 16-bit limbs, least significant first
LimbBase == 65536

\* a number below 2^31 as a u64
U64(n) == <<n % LimbBase, n \div LimbBase, 0, 0>>

\* x * f in 64 bits for a factor f of at most 1000: the wrapped product and
\* the carry out of the top limb (not 0 when the product exceeds u64::MAX)
MulSmall(x, f) ==
  LET l1 == x[1] * f
      l2 == x[2] * f + l1 \div LimbBase
      l3 == x[3] * f + l2 \div LimbBase
      l4 == x[4] * f + l3 \div LimbBase
  IN [v |-> <<l1 % LimbBase, l2 % LimbBase, l3 % LimbBase, l4 % LimbBase>>,
      carry |-> l4 \div LimbBase]

\* a < b for two u64 values
U64Less(a, b) ==
  \/ a[4] < b[4]
  \/ a[4] = b[4] /\ a[3] < b[3]
  \/ a[4] = b[4] /\ a[3] = b[3] /\ a[2] < b[2]
  \/ a[4] = b[4] /\ a[3] = b[3] /\ a[2] = b[2] /\ a[1] < b[1]

\* the nanoseconds of a time given in hours (ic_cdk::api::time() is in
\* nanoseconds; the clock of the model reads whole hours)
Nanoseconds(hours) ==
  MulSmall(MulSmall(MulSmall(MulSmall(MulSmall(U64(hours), 60).v, 60).v, 1000).v, 1000).v, 1000).v

\* approximate day count since 1970 in u32 arithmetic, then nanoseconds in
\* u64 arithmetic.  ns is the value with wrapping arithmetic; overflow tells
\* whether an operation left its width (year - 1970 below 0, or a product
\* above u64::MAX), which traps when the build checks overflow.
date_to_timestamp(year, month, day) ==
  LET days == (year - 1970) * 365 + (month - 1) * 30 + day
      days_since_1970 == <<days % LimbBase, (days \div LimbBase) % LimbBase, 0, 0>>
      m1 == MulSmall(days_since_1970, HoursPerDay)
      m2 == MulSmall(m1.v, 60)
      m3 == MulSmall(m2.v, 60)
      m4 == MulSmall(m3.v, 1000)
      m5 == MulSmall(m4.v, 1000)
      m6 == MulSmall(m5.v, 1000)
  IN [ns |-> m6.v,
      overflow |-> \/ year < 1970
                   \/ \E m \in {m1, m2, m3, m4, m5, m6} : m.carry # 0]

\* the call of date_to_timestamp on this date panics
DateTraps(date) ==
  LET p == parse_date(date) IN
  /\ overflow_checks
  /\ p # <<>>
  /\ date_to_timestamp(p[1][1], p[1][2], p[1][3]).overflow

ThirtyDays == 30

is_date_too_far_in_future_30_days(date) ==
  LET p == parse_date(date) IN
  IF p # <<>>
  THEN U64Less(Nanoseconds(now + ThirtyDays * HoursPerDay),
               date_to_timestamp(p[1][1], p[1][2], p[1][3]).ns)
  ELSE FALSE

FiftyYears == 50

is_employment_date_too_old(date) ==
  LET p == parse_date(date) IN
  IF p # <<>>
  THEN U64Less(date_to_timestamp(p[1][1], p[1][2], p[1][3]).ns,
               Nanoseconds(now - FiftyYears * 365 * HoursPerDay))
  ELSE FALSE

RefShape(reference, len, prefix, sufLen) ==
  LET parts == split(reference, "-") IN
  /\ StrLen(reference) = len
  /\ Len(parts) = 3
  /\ parts[1] = prefix
  /\ Utf8Len(parts[2]) = 4 /\ AllChars(parts[2], is_numeric)
  /\ Utf8Len(parts[3]) = sufLen /\ AllChars(parts[3], is_alphanumeric)

ExpenseRefLen == 17
ExpenseSuffixLen == 8

is_valid_expense_reference(reference) ==
  RefShape(reference, ExpenseRefLen, <<"E", "X", "P">>, ExpenseSuffixLen)

PaymentRefLen == 17
PaymentSuffixLen == 8

is_valid_payment_reference(reference) ==
  RefShape(reference, PaymentRefLen, <<"P", "A", "Y">>, PaymentSuffixLen)

SalaryRefLen == 18
SalarySuffixLen == 6

is_valid_salary_reference(reference) ==
  LET parts == split(reference, "-") IN
  /\ StrLen(reference) = SalaryRefLen
  /\ Len(parts) = 4
  /\ parts[1] = <<"S", "A", "L">>
  /\ Utf8Len(parts[2]) = 4 /\ AllChars(parts[2], is_numeric)
  /\ Utf8Len(parts[3]) = 2 /\ AllChars(parts[3], is_numeric)
  /\ ParseOrZero(parts[3]) >= 1 /\ ParseOrZero(parts[3]) <= 12
  /\ Utf8Len(parts[4]) = SalarySuffixLen /\ AllChars(parts[4], is_alphanumeric)

\* lib.rs: the copy of the salary reference check of the dispatcher
LibSalaryRefLen == 16

expense_assertions_is_valid_salary_reference(reference) ==
  LET parts == split(reference, "-") IN
  /\ StrLen(reference) = LibSalaryRefLen
  /\ Len(parts) = 4
  /\ parts[1] = <<"S", "A", "L">>
  /\ Len(parts[2]) = 4 /\ AllChars(parts[2], is_numeric)
  /\ Len(parts[3]) = 2 /\ AllChars(parts[3], is_numeric)
  /\ ParseOrZero(parts[3]) >= 1 /\ ParseOrZero(parts[3]) <= 12
  /\ Len(parts[4]) = SalarySuffixLen /\ AllChars(parts[4], is_alphanumeric)

(***************************************************************************)
(* Results.  A Result<(), String> is a record: tag is "ok" or the text of  *)
(* the error message (without its arguments), args the formatted values,   *)
(* q the store queries issued and ran the checks entered, in order.        *)
(***************************************************************************)
Ok == [tag |-> "ok", args |-> <<>>, q |-> <<>>, ran |-> <<>>]
Err(tag, args) == [tag |-> tag, args |-> args, q |-> <<>>, ran |-> <<>>]
IsOk(r) == r.tag = "ok"

\* a panic of the hook: the call traps and the write is rejected
Trap(message) == Err("panicked", <<message>>)

\* a check function that was entered: its name is recorded
Step(name, r) == [r EXCEPT !.ran = <<name>> \o @]

\* a check that issued the query qy before it returned r
Asked(qy, r) == [r EXCEPT !.q = <<qy>> \o @]

\* `first?; second`: the second check runs only if the first returned Ok
AndThen(first, second) ==
  IF IsOk(first)
  THEN [second EXCEPT !.q = first.q \o @, !.ran = first.ran \o @]
  ELSE first

(***************************************************************************)
(* The store's read interface.  list_docs returns the keys of the records  *)
(* of a collection selected by a matcher: a key matcher selects the record *)
(* stored under that key; a description matcher selects the records whose  *)
(* description index contains the pattern text literally.  A committed     *)
(* record is indexed under the "field=value;" fragments of its own data    *)
(* (natural keys in lower case).                                           *)
(***************************************************************************)
Current(collection, key) ==
  IF key \in DOMAIN store[collection] THEN <<store[collection][key]>> ELSE <<>>

KeyMatcher(key) == [by |-> "key", field |-> "key", value |-> <<key>>]
DescMatcher(field, value) == [by |-> "description", field |-> field, value |-> value]

\* does the description index of a record with this data contain the pattern
Indexed(collection, data, m) ==
  CASE m.field = "reference" -> data.reference = m.value[1]
  [] m.field = "vendor_name*amount*payment_date" ->
       /\ data.vendor_name # NONE
       /\ to_lowercase(data.vendor_name) = m.value[1]
       /\ data.amount = m.value[2]
       /\ data.payment_date = m.value[3]
  [] m.field = "staff_number" -> data.staff_number = m.value[1]
  [] m.field = "admissionNumber" ->
       /\ data.admission_number # NONE
       /\ to_lowercase(data.admission_number) = m.value[1]
  [] m.field = "name" -> to_lowercase(data.name) = m.value[1]
  [] m.field = "staff_id*payment_period_start*payment_period_end*status=paid" ->
       /\ data.staff_id = m.value[1]
       /\ data.payment_period_start = m.value[2]
       /\ data.payment_period_end = m.value[3]
       /\ data.status = "paid"

list_docs(collection, m) ==
  IF m.by = "key"
  THEN {k \in DOMAIN store[collection] : k = m.value[1]}
  ELSE {k \in DOMAIN store[collection] : Indexed(collection, store[collection][k], m)}

\* the entry of the query log for a list_docs call
Query(collection, m) == <<collection, m.field>>

\* a conflict test that lets every update through
HasOtherHolderSkipsUpdates(context, items) ==
  LET is_update == context.key # EmptyKey IN
  \E doc_key \in items : ~is_update

\* a conflict test that does not exclude the record being written
HasOtherHolderAny(context, items) == items # {}

\* for (doc_key, _) in items { if is_update && doc_key == key { continue; } return Err }
HasOtherHolder(context, items) ==
  LET is_update == context.key # EmptyKey IN
  \E doc_key \in items : ~(is_update /\ doc_key = context.key)

(***************************************************************************)
(* modules/expenses/mod.rs                                                 *)
(***************************************************************************)
validate_expense_basic_fields(expense_data) ==
  IF expense_data.amount <= 0
  THEN Err("Expense amount must be greater than 0", <<>>)
  ELSE Ok

ExpensePaymentMethods == <<"cash", "bank_transfer", "cheque", "pos", "online">>

InSeq(x, seq) == \E i \in 1..Len(seq) : seq[i] = x

validate_expense_formats(expense_data) ==
  IF ~InSeq(expense_data.payment_method, ExpensePaymentMethods)
  THEN Err("Invalid payment method '{}'. Must be one of: {}",
           <<expense_data.payment_method, ExpensePaymentMethods>>)
  ELSE IF ~starts_with(expense_data.reference, <<"E", "X", "P", "-">>)
  THEN Err("Expense reference must start with 'EXP-'", <<>>)
  ELSE IF ~is_valid_expense_reference(expense_data.reference)
  THEN Err("Expense reference must be in format EXP-YYYY-XXXXXXXX", <<>>)
  ELSE IF ~is_valid_date_format(expense_data.payment_date)
  THEN Err("Invalid payment date format. Must be YYYY-MM-DD", <<>>)
  ELSE Ok

ExpenseTransitions ==
  [pending |-> <<"approved", "rejected">>,
   approved |-> <<"paid">>,
   rejected |-> <<>>,
   paid |-> <<>>]

\* a transition check that consults the table for an unchanged status too
TransitionCheckEveryWrite(table, current_status, new_status, text, onUnknown) ==
  IF current_status \in DOMAIN table
  THEN IF ~InSeq(new_status, table[current_status])
       THEN Err(text, <<current_status, new_status, table[current_status]>>)
       ELSE Ok
  ELSE onUnknown

\* a transition check that only asks whether the previous status is known
TransitionCheckKnownOnly(table, current_status, new_status, text, onUnknown) ==
  IF current_status # new_status /\ current_status \notin DOMAIN table
  THEN onUnknown
  ELSE Ok

\* the `if current_status != new_status { ... }` block shared by the three
\* status-bearing types; onUnknown is the result for a status that is no key
\* of the table
TransitionCheck(table, current_status, new_status, text, onUnknown) ==
  IF current_status # new_status
  THEN IF current_status \in DOMAIN table
       THEN IF ~InSeq(new_status, table[current_status])
            THEN Err(text, <<current_status, new_status, table[current_status]>>)
            ELSE Ok
       ELSE onUnknown
  ELSE Ok

ExpenseTransitionText == "Invalid status transition from '{}' to '{}'. Allowed transitions: [{}]"

validate_expense_status_transition(context, proposed) ==
  IF context.current # <<>>
  THEN LET before_data == context.current[1]
           legal == TransitionCheck(ExpenseTransitions, before_data.status, proposed.status,
                                    ExpenseTransitionText,
                                    Err("Unknown current status: '{}'", <<before_data.status>>))
       IN IF ~IsOk(legal) THEN legal
          ELSE IF proposed.status = "approved" /\ proposed.approved_by = NONE
          THEN Err("Approved expenses must have approved_by field set", <<>>)
          ELSE IF proposed.status = "approved" /\ proposed.approved_at = NoTime
          THEN Err("Approved expenses must have approved_at timestamp", <<>>)
          ELSE IF /\ proposed.status = "rejected"
                  /\ (proposed.notes = NONE \/ TrimIsEmpty(proposed.notes))
          THEN Err("Rejected expenses must include rejection reason in notes", <<>>)
          ELSE Ok
  ELSE IF proposed.status = "pending"
  THEN Err("Expenses cannot be saved with 'pending' status. Expenses must be approved before recording to the datastore.", <<>>)
  ELSE IF proposed.status # "approved"
  THEN Err("New expenses must have status 'approved'. Only approved expenses can be saved to the datastore.", <<>>)
  ELSE IF proposed.approved_by = NONE
  THEN Err("Approved expenses must have approved_by field set", <<>>)
  ELSE IF proposed.approved_at = NoTime
  THEN Err("Approved expenses must have approved_at timestamp", <<>>)
  ELSE Ok

\* lib.rs, mod expense_assertions: the copy of the expense status check that
\* the hook's expense arm calls; it differs from the one of modules/ in the
\* branch for a new expense
expense_assertions_validate_expense_status_transition(context, proposed) ==
  IF context.current # <<>>
  THEN LET before_data == context.current[1]
           legal == TransitionCheck(ExpenseTransitions, before_data.status, proposed.status,
                                    ExpenseTransitionText,
                                    Err("Unknown current status: '{}'", <<before_data.status>>))
       IN IF ~IsOk(legal) THEN legal
          ELSE IF proposed.status = "approved" /\ proposed.approved_by = NONE
          THEN Err("Approved expenses must have approved_by field set", <<>>)
          ELSE IF proposed.status = "approved" /\ proposed.approved_at = NoTime
          THEN Err("Approved expenses must have approved_at timestamp", <<>>)
          ELSE IF /\ proposed.status = "rejected"
                  /\ (proposed.notes = NONE \/ TrimIsEmpty(proposed.notes))
          THEN Err("Rejected expenses must include rejection reason in notes", <<>>)
          ELSE Ok
  ELSE IF proposed.status # "pending"
  THEN Err("New expenses must have status 'pending'", <<>>)
  ELSE Ok

\* a category check with the test of the query result inverted
validate_expense_category_exists_inverted(category_id) ==
  LET m == KeyMatcher(category_id) IN
  Asked(Query("expense_categories", m),
        IF list_docs("expense_categories", m) # {}
        THEN Err("Expense category '{}' not found", <<category_id>>)
        ELSE Ok)

validate_expense_category_exists(category_id) ==
  LET m == KeyMatcher(category_id) IN
  Asked(Query("expense_categories", m),
        IF list_docs("expense_categories", m) = {}
        THEN Err("Expense category '{}' not found", <<category_id>>)
        ELSE Ok)

validate_expense_reference_uniqueness(context, reference) ==
  LET m == DescMatcher("reference", <<reference>>) IN
  Asked(Query("expenses", m),
        IF HasOtherHolder(context, list_docs("expenses", m))
        THEN Err("Expense reference '{}' already exists", <<reference>>)
        ELSE Ok)

validate_potential_duplicate_expense(context, expense_data, vendor) ==
  LET m == DescMatcher("vendor_name*amount*payment_date",
                       <<to_lowercase(vendor), expense_data.amount, expense_data.payment_date>>)
  IN Asked(Query("expenses", m),
           IF HasOtherHolder(context, list_docs("expenses", m))
           THEN Err("Potential duplicate expense: Same vendor '{}', amount {}, and date {} already exists",
                    <<vendor>>)
           ELSE Ok)

validate_expense_business_rules(context, expense_data) ==
  AndThen(Step("validate_expense_reference_uniqueness",
               validate_expense_reference_uniqueness(context, expense_data.reference)),
          IF expense_data.vendor_name # NONE
          THEN Step("validate_potential_duplicate_expense",
                    validate_potential_duplicate_expense(context, expense_data,
                                                         expense_data.vendor_name))
          ELSE Ok)

one_hour == 1

validate_approval_timestamp(approved_at, created_at) ==
  IF approved_at <= created_at
  THEN Err("Approval timestamp must be after expense creation time", <<>>)
  ELSE IF approved_at > now + one_hour
  THEN Err("Approval timestamp cannot be in the future", <<>>)
  ELSE Ok

validate_high_value_approval_requirements(expense_data) == Ok

validate_paid_expense_requirements(expense_data) == Ok

RejectionReasonMinLen == 10

\* an approval workflow that lets a pending expense carry approval fields
validate_expense_approval_workflow_lenient(context, expense_data) ==
  CASE expense_data.status = "pending" -> Ok
    [] expense_data.status = "approved" ->
         IF expense_data.approved_by = NONE
         THEN Err("Approved expenses must have approved_by field set", <<>>)
         ELSE IF expense_data.approved_at = NoTime
         THEN Err("Approved expenses must have approved_at timestamp", <<>>)
         ELSE AndThen(validate_approval_timestamp(expense_data.approved_at,
                                                  expense_data.created_at),
                      validate_high_value_approval_requirements(expense_data))
    [] expense_data.status = "rejected" ->
         IF expense_data.notes = NONE \/ TrimIsEmpty(expense_data.notes)
         THEN Err("Rejected expenses must include rejection reason in notes", <<>>)
         ELSE IF expense_data.approved_at # NoTime
         THEN Err("Rejected expenses cannot have approved_at timestamp", <<>>)
         ELSE IF StrLen(expense_data.notes) < RejectionReasonMinLen
         THEN Err("Rejection reason must be at least 10 characters", <<>>)
         ELSE Ok
    [] expense_data.status = "paid" ->
         IF expense_data.approved_by = NONE \/ expense_data.approved_at = NoTime
         THEN Err("Paid expenses must have been approved first", <<>>)
         ELSE validate_paid_expense_requirements(expense_data)
    [] OTHER -> Err("Invalid expense status: '{}'", <<expense_data.status>>)

validate_expense_approval_workflow(context, expense_data) ==
  CASE expense_data.status = "pending" ->
         IF expense_data.approved_by # NONE
         THEN Err("Pending expenses cannot have approved_by field set", <<>>)
         ELSE IF expense_data.approved_at # NoTime
         THEN Err("Pending expenses cannot have approved_at field set", <<>>)
         ELSE Ok
    [] expense_data.status = "approved" ->
         IF expense_data.approved_by = NONE
         THEN Err("Approved expenses must have approved_by field set", <<>>)
         ELSE IF expense_data.approved_at = NoTime
         THEN Err("Approved expenses must have approved_at timestamp", <<>>)
         ELSE AndThen(validate_approval_timestamp(expense_data.approved_at,
                                                  expense_data.created_at),
                      validate_high_value_approval_requirements(expense_data))
    [] expense_data.status = "rejected" ->
         IF expense_data.notes = NONE \/ TrimIsEmpty(expense_data.notes)
         THEN Err("Rejected expenses must include rejection reason in notes", <<>>)
         ELSE IF expense_data.approved_at # NoTime
         THEN Err("Rejected expenses cannot have approved_at timestamp", <<>>)
         ELSE IF StrLen(expense_data.notes) < RejectionReasonMinLen
         THEN Err("Rejection reason must be at least 10 characters", <<>>)
         ELSE Ok
    [] expense_data.status = "paid" ->
         IF expense_data.approved_by = NONE \/ expense_data.approved_at = NoTime
         THEN Err("Paid expenses must have been approved first", <<>>)
         ELSE validate_paid_expense_requirements(expense_data)
    [] OTHER -> Err("Invalid expense status: '{}'", <<expense_data.status>>)

validate_expense_document(context) ==
  LET expense_data == context.proposed IN
  AndThen(Step("validate_expense_basic_fields",
               validate_expense_basic_fields(expense_data)),
  AndThen(Step("validate_expense_status_transition",
               validate_expense_status_transition(context, expense_data)),
  AndThen(validate_expense_business_rules(context, expense_data),
  AndThen(Step("validate_expense_category_exists",
               validate_expense_category_exists(expense_data.category_id)),
  AndThen(Step("validate_expense_formats",
               validate_expense_formats(expense_data)),
          Step("validate_expense_approval_workflow",
               validate_expense_approval_workflow(context, expense_data)))))))

CategoryNameMinLen == 3
CategoryNameMaxLen == 100

is_whitespace(c) == c = " "

is_valid_category_name(name) ==
  /\ StrLen(name) >= CategoryNameMinLen
  /\ StrLen(name) <= CategoryNameMaxLen
  /\ \A i \in 1..StrLen(name) :
       \/ is_alphanumeric(Chars(name)[i])
       \/ is_whitespace(Chars(name)[i])
       \/ Chars(name)[i] \in {".", "_", "-", "'", "(", ")"}

BudgetCodeLen == 7

is_alphabetic(c) == c \in Letters

is_valid_budget_code(code) ==
  LET parts == split(code, "-") IN
  /\ StrLen(code) = BudgetCodeLen
  /\ Len(parts) = 2
  /\ Len(parts[1]) = 3 /\ AllChars(parts[1], is_alphabetic)
  /\ Len(parts[2]) = 3 /\ AllChars(parts[2], is_numeric)

CategoryDescriptionMaxLen == 1000

\* the description of a category is represented by its length (NoAmount if absent)
validate_expense_category_document(context) ==
  LET category_data == context.proposed
      m == DescMatcher("name", <<to_lowercase(category_data.name)>>)
  IN IF ~is_valid_category_name(category_data.name)
     THEN Err("Category name must be 3-100 characters and contain only letters, numbers, spaces, and basic punctuation", <<>>)
     ELSE Asked(Query("expense_categories", m),
          IF HasOtherHolder(context, list_docs("expense_categories", m))
          THEN Err("Category name '{}' is already taken", <<category_data.name>>)
          ELSE IF /\ category_data.description_len # NoAmount
                  /\ category_data.description_len > CategoryDescriptionMaxLen
          THEN Err("Category description cannot exceed 1000 characters (current length: {})",
                   <<category_data.description_len>>)
          ELSE IF /\ category_data.budget_code # NONE
                  /\ ~TrimIsEmpty(category_data.budget_code)
                  /\ ~is_valid_budget_code(category_data.budget_code)
          THEN Err("Budget code must be in format: XXX-000 (e.g., ADM-001)", <<>>)
          ELSE Ok)

(***************************************************************************)
(* modules/payments/mod.rs                                                 *)
(***************************************************************************)
validate_payment_core_fields(payment) ==
  IF payment.amount <= 0
  THEN Err("Payment amount must be greater than zero", <<>>)
  ELSE Ok

validate_payment_dates(payment) ==
  IF ~is_valid_date_format(payment.payment_date)
  THEN Err("Invalid payment date format. Must be YYYY-MM-DD", <<>>)
  ELSE Ok

PaymentMethods == <<"cash", "bank_transfer", "pos", "online", "cheque">>

validate_payment_method_constraints(payment) ==
  IF ~InSeq(payment.payment_method, PaymentMethods)
  THEN Err("Invalid payment method '{}'. Must be one of: {}",
           <<payment.payment_method, PaymentMethods>>)
  ELSE Ok

PaymentStatuses == <<"pending", "confirmed", "cancelled", "refunded">>

\* a payment graph in which a cancelled payment can be reopened
PaymentTransitionsReopen ==
  [pending |-> <<"confirmed", "cancelled">>,
   confirmed |-> <<"refunded">>,
   cancelled |-> <<"pending">>,
   refunded |-> <<>>]

PaymentTransitions ==
  [pending |-> <<"confirmed", "cancelled">>,
   confirmed |-> <<"refunded">>,
   cancelled |-> <<>>,
   refunded |-> <<>>]

PaymentTransitionText == "Invalid status transition from '{}' to '{}'. Allowed: [{}]"

validate_payment_status_transitions(context, payment) ==
  IF ~InSeq(payment.status, PaymentStatuses)
  THEN Err("Invalid payment status '{}'. Must be one of: {}", <<payment.status, PaymentStatuses>>)
  ELSE IF context.current # <<>>
  THEN LET before_payment == context.current[1]
           legal == TransitionCheck(PaymentTransitions, before_payment.status, payment.status,
                                    PaymentTransitionText, Ok)
       IN IF ~IsOk(legal) THEN legal
          ELSE IF /\ payment.status = "cancelled"
                  /\ (payment.notes = NONE \/ TrimIsEmpty(payment.notes))
          THEN Err("Cancelled payments must include cancellation reason in notes", <<>>)
          ELSE IF /\ payment.status = "refunded"
                  /\ (payment.notes = NONE \/ TrimIsEmpty(payment.notes))
          THEN Err("Refunded payments must include refund reason in notes", <<>>)
          ELSE Ok
  ELSE IF ~InSeq(payment.status, <<"pending", "confirmed">>)
  THEN Err("New payments must have status 'pending' or 'confirmed'", <<>>)
  ELSE Ok

RECURSIVE SumAmounts(_)
SumAmounts(items) ==
  IF items = <<>> THEN 0 ELSE items[1].amount + SumAmounts(Tail(items))

MaxFeeAllocations == 20
Tolerance == 1

Abs(x) == IF x < 0 THEN 0 - x ELSE x

FeeTypes ==
  <<"tuition", "uniform", "feeding", "transport", "books", "sports", "development",
    "examination", "pta", "computer", "library", "laboratory", "lesson", "other">>

\* the checks of one allocation, in the order of the loop body
AllocationCheck(allocation, i) ==
  IF TrimIsEmpty(allocation.category_id)
  THEN Err("Fee allocation {} must have a category ID", <<i>>)
  ELSE IF TrimIsEmpty(allocation.category_name)
  THEN Err("Fee allocation {} must have a category name", <<i>>)
  ELSE IF TrimIsEmpty(allocation.fee_type)
  THEN Err("Fee allocation {} must have a fee type", <<i>>)
  ELSE IF ~InSeq(allocation.fee_type, FeeTypes)
  THEN Err("Invalid fee type '{}' in allocation {}. Must be one of: {}", <<allocation.fee_type, i>>)
  ELSE Ok

\* the result of the first failing iteration of a loop over 1..n, or Ok
RECURSIVE FirstFailure(_, _, _)
FirstFailure(check(_), i, n) ==
  IF i > n THEN Ok
  ELSE IF ~IsOk(check(i)) THEN check(i)
  ELSE FirstFailure(check, i + 1, n)

\* an allocation check that does not compare the sum with the payment amount
validate_payment_allocations_unsummed(payment) ==
  LET body(i) == AllocationCheck(payment.fee_allocations[i], i)
  IN IF payment.fee_allocations = <<>>
     THEN Err("Payment must have at least one fee allocation", <<>>)
     ELSE IF Len(payment.fee_allocations) > MaxFeeAllocations
     THEN Err("Payment cannot have more than 20 fee allocations", <<>>)
     ELSE FirstFailure(body, 1, Len(payment.fee_allocations))

validate_payment_allocations(payment) ==
  LET total_allocated == SumAmounts(payment.fee_allocations)
      body(i) == AllocationCheck(payment.fee_allocations[i], i)
  IN IF payment.fee_allocations = <<>>
     THEN Err("Payment must have at least one fee allocation", <<>>)
     ELSE IF Len(payment.fee_allocations) > MaxFeeAllocations
     THEN Err("Payment cannot have more than 20 fee allocations", <<>>)
     ELSE IF Abs(payment.amount - total_allocated) > Tolerance
     THEN Err("Payment amount ({:.2}) must match sum of fee allocations ({:.2})",
              <<payment.amount, total_allocated>>)
     ELSE FirstFailure(body, 1, Len(payment.fee_allocations))

\* lib.rs: the amount check of the payment validator of the dispatcher
\* (amounts are whole kobo, so the two-decimal-place test always passes)
KoboPerNaira == 100
MaxPaymentNaira == 50000000
MinPaymentAmount == 10000

\* amount > naira.00, for an amount in kobo
ExceedsNaira(amount, naira) ==
  \/ amount \div KoboPerNaira > naira
  \/ amount \div KoboPerNaira = naira /\ amount % KoboPerNaira > 0

expense_assertions_validate_payment_amounts(payment) ==
  LET body(i) ==
        IF payment.fee_allocations[i].amount <= 0
        THEN Err("Fee allocation {} amount must be greater than zero", <<i>>)
        ELSE IF payment.fee_allocations[i].amount > payment.amount
        THEN Err("Fee allocation {} amount ({:.2}) cannot exceed payment amount ({:.2})",
                 <<i, payment.fee_allocations[i].amount, payment.amount>>)
        ELSE Ok
  IN IF payment.amount <= 0
     THEN Err("Payment amount must be greater than zero", <<>>)
     ELSE IF ExceedsNaira(payment.amount, MaxPaymentNaira)
     THEN Err("Payment amount cannot exceed 50,000,000", <<>>)
     ELSE IF payment.amount < MinPaymentAmount
     THEN Err("Payment amount cannot be less than 100", <<>>)
     ELSE FirstFailure(body, 1, Len(payment.fee_allocations))

\* a reference check that verifies the format only and never asks the store
validate_payment_reference_format_only(context, payment) ==
  IF ~starts_with(payment.reference, <<"P", "A", "Y", "-">>)
  THEN Err("Payment reference must start with 'PAY-'", <<>>)
  ELSE IF ~is_valid_payment_reference(payment.reference)
  THEN Err("Payment reference must follow format: PAY-YYYY-XXXXXXXX", <<>>)
  ELSE Ok

validate_payment_reference_uniqueness(context, payment) ==
  LET m == DescMatcher("reference", <<payment.reference>>) IN
  IF ~starts_with(payment.reference, <<"P", "A", "Y", "-">>)
  THEN Err("Payment reference must start with 'PAY-'", <<>>)
  ELSE IF ~is_valid_payment_reference(payment.reference)
  THEN Err("Payment reference must follow format: PAY-YYYY-XXXXXXXX", <<>>)
  ELSE Asked(Query("payments", m),
             IF HasOtherHolder(context, list_docs("payments", m))
             THEN Err("Payment reference '{}' already exists", <<payment.reference>>)
             ELSE Ok)

\* a payment pipeline that checks the allocations before the status transition
validate_payment_document_allocations_first(context) ==
  LET payment_data == context.proposed IN
  AndThen(Step("validate_payment_core_fields", validate_payment_core_fields(payment_data)),
  AndThen(Step("validate_payment_dates", validate_payment_dates(payment_data)),
  AndThen(Step("validate_payment_method_constraints",
               validate_payment_method_constraints(payment_data)),
  AndThen(Step("validate_payment_allocations", validate_payment_allocations(payment_data)),
  AndThen(Step("validate_payment_status_transitions",
               validate_payment_status_transitions(context, payment_data)),
          Step("validate_payment_reference_uniqueness",
               validate_payment_reference_uniqueness(context, payment_data)))))))

validate_payment_document(context) ==
  LET payment_data == context.proposed IN
  AndThen(Step("validate_payment_core_fields", validate_payment_core_fields(payment_data)),
  AndThen(Step("validate_payment_dates", validate_payment_dates(payment_data)),
  AndThen(Step("validate_payment_method_constraints",
               validate_payment_method_constraints(payment_data)),
  AndThen(Step("validate_payment_status_transitions",
               validate_payment_status_transitions(context, payment_data)),
  AndThen(Step("validate_payment_allocations", validate_payment_allocations(payment_data)),
          Step("validate_payment_reference_uniqueness",
               validate_payment_reference_uniqueness(context, payment_data)))))))

(***************************************************************************)
(* modules/staff/mod.rs                                                    *)
(***************************************************************************)
validate_staff_core_fields(staff) ==
  IF staff.basic_salary <= 0
  THEN Err("Basic salary must be greater than zero", <<>>)
  ELSE Ok

EmploymentTypes == <<"full-time", "part-time", "contract">>
DepartmentMaxLen == 50

is_valid_department_name(name) ==
  /\ StrLen(name) <= DepartmentMaxLen
  /\ \A i \in 1..StrLen(name) :
       \/ is_alphanumeric(Chars(name)[i])
       \/ is_whitespace(Chars(name)[i])
       \/ Chars(name)[i] \in {".", "_", "-", "&", "'", "(", ")"}

validate_staff_employment_details(staff) ==
  IF ~InSeq(staff.employment_type, EmploymentTypes)
  THEN Err("Invalid employment type '{}'. Must be one of: {}",
           <<staff.employment_type, EmploymentTypes>>)
  ELSE IF ~is_valid_date_format(staff.employment_date)
  THEN Err("Invalid employment date format. Must be YYYY-MM-DD", <<>>)
  ELSE IF DateTraps(staff.employment_date)
  THEN Trap("arithmetic overflow")
  ELSE IF is_date_too_far_in_future_30_days(staff.employment_date)
  THEN Err("Employment date cannot be more than 30 days in the future", <<>>)
  ELSE IF is_employment_date_too_old(staff.employment_date)
  THEN Err("Employment date cannot be more than 50 years in the past", <<>>)
  ELSE IF staff.department # NONE /\ StrLen(staff.department) > DepartmentMaxLen
  THEN Err("Department name cannot exceed 50 characters (current: {})", <<>>)
  ELSE IF /\ staff.department # NONE
          /\ ~TrimIsEmpty(staff.department)
          /\ ~is_valid_department_name(staff.department)
  THEN Err("Department name contains invalid characters", <<>>)
  ELSE Ok

\* the loop that inserts names into a HashSet and fails on the first repeat
DuplicateName(items, text) ==
  LET repeats == {i \in 1..Len(items) : \E j \in 1..(i - 1) : items[j].name = items[i].name}
  IN IF repeats = {} THEN Ok
     ELSE Err(text, <<items[CHOOSE i \in repeats : \A j \in repeats : i <= j].name>>)

\* Option<Vec<StaffAllowance>>: the absent list is the empty one for this check
validate_staff_salary_and_allowances(staff) ==
  DuplicateName(staff.allowances, "Duplicate allowance name: '{}'")

validate_staff_contact_information(staff) == Ok

validate_staff_banking_details(staff) == Ok

validate_staff_number_uniqueness(context, staff) ==
  LET m == DescMatcher("staff_number", <<staff.staff_number>>) IN
  Asked(Query("staff", m),
        IF HasOtherHolder(context, list_docs("staff", m))
        THEN Err("Staff number '{}' already exists", <<staff.staff_number>>)
        ELSE Ok)

validate_staff_business_rules(staff) == Ok

validate_staff_document(context) ==
  LET staff_data == context.proposed IN
  AndThen(Step("validate_staff_core_fields", validate_staff_core_fields(staff_data)),
  AndThen(Step("validate_staff_employment_details",
               validate_staff_employment_details(staff_data)),
  AndThen(Step("validate_staff_salary_and_allowances",
               validate_staff_salary_and_allowances(staff_data)),
  AndThen(Step("validate_staff_contact_information",
               validate_staff_contact_information(staff_data)),
  AndThen(Step("validate_staff_banking_details", validate_staff_banking_details(staff_data)),
  AndThen(Step("validate_staff_number_uniqueness",
               validate_staff_number_uniqueness(context, staff_data)),
          Step("validate_staff_business_rules",
               validate_staff_business_rules(staff_data))))))))

validate_salary_core_fields(salary) ==
  IF salary.basic_salary <= 0
  THEN Err("Basic salary must be greater than zero", <<>>)
  ELSE Ok

\* a salary calculation that leaves the deductions out of the expected net
validate_salary_amounts_and_calculations_gross(salary) ==
  LET dupA == DuplicateName(salary.allowances, "Duplicate allowance name: '{}'")
      dupD == DuplicateName(salary.deductions, "Duplicate deduction name: '{}'")
      expected_gross == salary.basic_salary + SumAmounts(salary.allowances)
  IN IF ~IsOk(dupA) THEN dupA
     ELSE IF ~IsOk(dupD) THEN dupD
     ELSE IF Abs(salary.net_salary - expected_gross) > Tolerance
     THEN Err("Net salary ({:.2}) doesn't match basic + allowances - deductions ({:.2})",
              <<salary.net_salary, expected_gross>>)
     ELSE Ok

validate_salary_amounts_and_calculations(salary) ==
  LET dupA == DuplicateName(salary.allowances, "Duplicate allowance name: '{}'")
      dupD == DuplicateName(salary.deductions, "Duplicate deduction name: '{}'")
      expected_gross == salary.basic_salary + SumAmounts(salary.allowances)
      expected_net == expected_gross - SumAmounts(salary.deductions)
  IN IF ~IsOk(dupA) THEN dupA
     ELSE IF ~IsOk(dupD) THEN dupD
     ELSE IF Abs(salary.net_salary - expected_net) > Tolerance
     THEN Err("Net salary ({:.2}) doesn't match basic + allowances - deductions ({:.2})",
              <<salary.net_salary, expected_net>>)
     ELSE Ok

Timestamp(date) ==
  LET p == parse_date(date) IN date_to_timestamp(p[1][1], p[1][2], p[1][3]).ns

validate_salary_payment_period(salary) ==
  IF ~is_valid_date_format(salary.payment_date)
  THEN Err("Invalid payment date format. Must be YYYY-MM-DD", <<>>)
  ELSE IF DateTraps(salary.payment_date)
  THEN Trap("arithmetic overflow")
  ELSE IF is_date_too_far_in_future_30_days(salary.payment_date)
  THEN Err("Payment date cannot be more than 30 days in the future", <<>>)
  ELSE IF \/ ~is_valid_date_format(salary.payment_period_start)
          \/ ~is_valid_date_format(salary.payment_period_end)
  THEN Err("Payment period start and end must be valid dates (YYYY-MM-DD)", <<>>)
  ELSE IF parse_date(salary.payment_period_start) = <<>>
  THEN Err("Invalid payment_period_start", <<>>)
  ELSE IF parse_date(salary.payment_period_end) = <<>>
  THEN Err("Invalid payment_period_end", <<>>)
  ELSE IF DateTraps(salary.payment_period_start) \/ DateTraps(salary.payment_period_end)
  THEN Trap("arithmetic overflow")
  ELSE IF U64Less(Timestamp(salary.payment_period_end), Timestamp(salary.payment_period_start))
  THEN Err("Payment period end cannot be before start", <<>>)
  ELSE IF parse_date(salary.payment_date) = <<>>
  THEN Err("Invalid payment_date", <<>>)
  ELSE IF U64Less(Timestamp(salary.payment_date), Timestamp(salary.payment_period_start))
  THEN Err("Payment date cannot be before the period start", <<>>)
  ELSE Ok

SalaryPaymentMethods == <<"bank_transfer", "cash", "cheque">>

validate_salary_payment_method(salary) ==
  IF ~InSeq(salary.payment_method, SalaryPaymentMethods)
  THEN Err("Invalid payment method '{}'. Must be one of: {}",
           <<salary.payment_method, SalaryPaymentMethods>>)
  ELSE Ok

SalaryStatuses == <<"pending", "approved", "paid">>

\* a salary graph in which a pending salary payment can be paid at once
SalaryTransitionsSkipApproval ==
  [pending |-> <<"approved", "paid">>,
   approved |-> <<"paid">>,
   paid |-> <<>>]

SalaryTransitions ==
  [pending |-> <<"approved">>,
   approved |-> <<"paid">>,
   paid |-> <<>>]

SalaryTransitionText == "Invalid status transition from '{}' to '{}'. Allowed: [{}]"

\* a salary status check that also lets a new salary payment start as approved
validate_salary_status_transitions_created_approved(context, salary) ==
  IF ~InSeq(salary.status, SalaryStatuses)
  THEN Err("Invalid salary status '{}'. Must be one of: {}", <<salary.status, SalaryStatuses>>)
  ELSE IF context.current # <<>>
  THEN LET before_salary == context.current[1]
           legal == TransitionCheck(SalaryTransitions, before_salary.status, salary.status,
                                    SalaryTransitionText, Ok)
       IN IF ~IsOk(legal) THEN legal
          ELSE IF salary.status = "approved" /\ TrimIsEmpty(salary.processed_by)
          THEN Err("Approved salary payments must have processed_by set", <<>>)
          ELSE Ok
  ELSE IF ~InSeq(salary.status, <<"pending", "approved">>)
  THEN Err("New salary payments must have status 'pending'", <<>>)
  ELSE Ok

validate_salary_status_transitions(context, salary) ==
  IF ~InSeq(salary.status, SalaryStatuses)
  THEN Err("Invalid salary status '{}'. Must be one of: {}", <<salary.status, SalaryStatuses>>)
  ELSE IF context.current # <<>>
  THEN LET before_salary == context.current[1]
           legal == TransitionCheck(SalaryTransitions, before_salary.status, salary.status,
                                    SalaryTransitionText, Ok)
       IN IF ~IsOk(legal) THEN legal
          ELSE IF salary.status = "approved" /\ TrimIsEmpty(salary.processed_by)
          THEN Err("Approved salary payments must have processed_by set", <<>>)
          ELSE Ok
  ELSE IF salary.status # "pending"
  THEN Err("New salary payments must have status 'pending'", <<>>)
  ELSE Ok

validate_salary_reference_uniqueness(context, salary) ==
  LET m == DescMatcher("reference", <<salary.reference>>) IN
  IF ~starts_with(salary.reference, <<"S", "A", "L", "-">>)
  THEN Err("Salary reference must start with 'SAL-'", <<>>)
  ELSE IF ~is_valid_salary_reference(salary.reference)
  THEN Err("Salary reference must follow format: SAL-YYYY-MM-XXXXXX", <<>>)
  ELSE Asked(Query("salary_payments", m),
             IF HasOtherHolder(context, list_docs("salary_payments", m))
             THEN Err("Salary reference '{}' already exists", <<salary.reference>>)
             ELSE Ok)

\* a duplicate check that runs only when the salary payment becomes paid
validate_salary_business_rules_on_entry(context, salary) ==
  LET m == DescMatcher("staff_id*payment_period_start*payment_period_end*status=paid",
                       <<salary.staff_id, salary.payment_period_start,
                         salary.payment_period_end>>)
  IN IF salary.status = "paid" /\ (context.current = <<>> \/ context.current[1].status # "paid")
     THEN Asked(Query("salary_payments", m),
                IF HasOtherHolder(context, list_docs("salary_payments", m))
                THEN Err("Staff {} already has a paid salary for period {} to {}",
                         <<salary.staff_id, salary.payment_period_start,
                           salary.payment_period_end>>)
                ELSE Ok)
     ELSE Ok

validate_salary_business_rules(context, salary) ==
  LET m == DescMatcher("staff_id*payment_period_start*payment_period_end*status=paid",
                       <<salary.staff_id, salary.payment_period_start,
                         salary.payment_period_end>>)
  IN IF salary.status = "paid"
     THEN Asked(Query("salary_payments", m),
                IF HasOtherHolder(context, list_docs("salary_payments", m))
                THEN Err("Staff {} already has a paid salary for period {} to {}",
                         <<salary.staff_id, salary.payment_period_start,
                           salary.payment_period_end>>)
                ELSE Ok)
     ELSE Ok

validate_salary_payment_document(context) ==
  LET salary_data == context.proposed IN
  AndThen(Step("validate_salary_core_fields", validate_salary_core_fields(salary_data)),
  AndThen(Step("validate_salary_amounts_and_calculations",
               validate_salary_amounts_and_calculations(salary_data)),
  AndThen(Step("validate_salary_payment_period", validate_salary_payment_period(salary_data)),
  AndThen(Step("validate_salary_payment_method", validate_salary_payment_method(salary_data)),
  AndThen(Step("validate_salary_status_transitions",
               validate_salary_status_transitions(context, salary_data)),
  AndThen(Step("validate_salary_reference_uniqueness",
               validate_salary_reference_uniqueness(context, salary_data)),
          Step("validate_salary_business_rules",
               validate_salary_business_rules(context, salary_data))))))))

(***************************************************************************)
(* modules/students/mod.rs                                                 *)
(***************************************************************************)
validate_student_document(context) ==
  LET student_data == context.proposed
      adm == student_data.admission_number
      class_id == student_data.class_id
      m == DescMatcher("admissionNumber", <<to_lowercase(adm)>>)
      c == KeyMatcher(class_id)
      unique ==
        IF adm # NONE /\ ~TrimIsEmpty(adm)
        THEN Asked(Query("students", m),
                   IF HasOtherHolder(context, list_docs("students", m))
                   THEN Err("Admission number '{}' already exists", <<adm>>)
                   ELSE Ok)
        ELSE Ok
      referenced ==
        IF class_id # NONE /\ ~TrimIsEmpty(class_id)
        THEN Asked(Query("classes", c),
                   IF list_docs("classes", c) = {}
                   THEN Err("Class '{}' not found", <<class_id>>)
                   ELSE Ok)
        ELSE Ok
  IN AndThen(unique, referenced)

(***************************************************************************)
(* modules/banking/mod.rs.  Amounts are whole naira; a field that is       *)
(* absent or of the wrong type (get(..).and_then(..) is None) is NONE or   *)
(* NoAmount.                                                               *)
(***************************************************************************)
MAX_SINGLE_TRANSACTION == 1000000000
MAX_TRANSFER_WITHOUT_APPROVAL == 5000000
OVERDRAFT_ALERT_THRESHOLD == 0 - 10000000

Max(a, b) == IF a >= b THEN a ELSE b

BankTransactionStatuses == <<"pending", "cleared", "reconciled">>

\* a bank transaction check without the test for a debit and a credit together
validate_bank_transaction_either(context) ==
  LET data == context.proposed
      debit == data.debitAmount
      credit == data.creditAmount
  IN IF debit = NoAmount THEN Err("Invalid debit amount", <<>>)
     ELSE IF credit = NoAmount THEN Err("Invalid credit amount", <<>>)
     ELSE IF debit < 0 \/ credit < 0
     THEN Err("SECURITY: Transaction amounts cannot be negative", <<>>)
     ELSE IF debit = 0 /\ credit = 0
     THEN Err("SECURITY: Transaction must have a non-zero amount", <<>>)
     ELSE IF Max(debit, credit) > MAX_SINGLE_TRANSACTION
     THEN Err("FRAUD ALERT: Transaction amount {:.2} exceeds maximum limit of {:.2}. Contact administrator.",
              <<Max(debit, credit)>>)
     ELSE IF data.balance # NoAmount /\ data.balance < OVERDRAFT_ALERT_THRESHOLD
     THEN Err("FRAUD ALERT: Account balance {:.2} exceeds reasonable overdraft limit. Verify account status.",
              <<data.balance>>)
     ELSE IF data.status # NONE /\ ~InSeq(data.status, BankTransactionStatuses)
     THEN Err("Invalid status '{}'. Must be: pending, cleared, or reconciled", <<data.status>>)
     ELSE IF data.status = "reconciled" /\ ~data.isReconciled
     THEN Err("AUDIT: Status is 'reconciled' but isReconciled flag is false", <<>>)
     ELSE Ok

validate_bank_transaction(context) ==
  LET data == context.proposed
      debit == data.debitAmount
      credit == data.creditAmount
  IN IF debit = NoAmount THEN Err("Invalid debit amount", <<>>)
     ELSE IF credit = NoAmount THEN Err("Invalid credit amount", <<>>)
     ELSE IF debit < 0 \/ credit < 0
     THEN Err("SECURITY: Transaction amounts cannot be negative", <<>>)
     ELSE IF debit > 0 /\ credit > 0
     THEN Err("SECURITY: Transaction cannot have both debit and credit amounts", <<>>)
     ELSE IF debit = 0 /\ credit = 0
     THEN Err("SECURITY: Transaction must have a non-zero amount", <<>>)
     ELSE IF Max(debit, credit) > MAX_SINGLE_TRANSACTION
     THEN Err("FRAUD ALERT: Transaction amount {:.2} exceeds maximum limit of {:.2}. Contact administrator.",
              <<Max(debit, credit)>>)
     ELSE IF data.balance # NoAmount /\ data.balance < OVERDRAFT_ALERT_THRESHOLD
     THEN Err("FRAUD ALERT: Account balance {:.2} exceeds reasonable overdraft limit. Verify account status.",
              <<data.balance>>)
     ELSE IF data.status # NONE /\ ~InSeq(data.status, BankTransactionStatuses)
     THEN Err("Invalid status '{}'. Must be: pending, cleared, or reconciled", <<data.status>>)
     ELSE IF data.status = "reconciled" /\ ~data.isReconciled
     THEN Err("AUDIT: Status is 'reconciled' but isReconciled flag is false", <<>>)
     ELSE Ok

\* validation_utils::validate_positive_amount is not among the sources; it
\* rejects an amount that is not greater than zero
validate_positive_amount(amount, what) ==
  IF amount <= 0 THEN Err("{} must be greater than 0", <<what>>) ELSE Ok

TransferStatuses == <<"pending", "approved", "completed", "rejected", "cancelled">>

\* a transfer check that demands approval from the threshold amount itself
validate_transfer_from_threshold(context) ==
  LET data == context.proposed
      positive == validate_positive_amount(data.amount, "Transfer amount")
  IN IF data.fromAccountId = NONE THEN Err("Missing fromAccountId", <<>>)
     ELSE IF data.toAccountId = NONE THEN Err("Missing toAccountId", <<>>)
     ELSE IF data.fromAccountId = data.toAccountId
     THEN Err("SECURITY: Cannot transfer to the same account. Self-transfers are prohibited.", <<>>)
     ELSE IF data.amount = NoAmount THEN Err("Invalid amount", <<>>)
     ELSE IF ~IsOk(positive) THEN positive
     ELSE IF data.amount > MAX_SINGLE_TRANSACTION
     THEN Err("FRAUD ALERT: Transfer amount {:.2} exceeds maximum limit. Contact administrator.",
              <<data.amount>>)
     ELSE IF data.status = NONE THEN Err("Missing status", <<>>)
     ELSE IF ~InSeq(data.status, TransferStatuses)
     THEN Err("Invalid status '{}'", <<data.status>>)
     ELSE IF /\ data.amount >= MAX_TRANSFER_WITHOUT_APPROVAL
             /\ data.status = "completed"
             /\ (data.approvedBy = NONE \/ TrimIsEmpty(data.approvedBy))
     THEN Err("APPROVAL REQUIRED: Transfers over {:.2} require approval before completion",
              <<MAX_TRANSFER_WITHOUT_APPROVAL>>)
     ELSE IF /\ data.amount >= MAX_TRANSFER_WITHOUT_APPROVAL
             /\ data.status = "completed"
             /\ data.approvedAt = NoTime
     THEN Err("AUDIT: Approved transfers must have approvedAt timestamp", <<>>)
     ELSE Ok

validate_transfer(context) ==
  LET data == context.proposed
      positive == validate_positive_amount(data.amount, "Transfer amount")
  IN IF data.fromAccountId = NONE THEN Err("Missing fromAccountId", <<>>)
     ELSE IF data.toAccountId = NONE THEN Err("Missing toAccountId", <<>>)
     ELSE IF data.fromAccountId = data.toAccountId
     THEN Err("SECURITY: Cannot transfer to the same account. Self-transfers are prohibited.", <<>>)
     ELSE IF data.amount = NoAmount THEN Err("Invalid amount", <<>>)
     ELSE IF ~IsOk(positive) THEN positive
     ELSE IF data.amount > MAX_SINGLE_TRANSACTION
     THEN Err("FRAUD ALERT: Transfer amount {:.2} exceeds maximum limit. Contact administrator.",
              <<data.amount>>)
     ELSE IF data.status = NONE THEN Err("Missing status", <<>>)
     ELSE IF ~InSeq(data.status, TransferStatuses)
     THEN Err("Invalid status '{}'", <<data.status>>)
     ELSE IF /\ data.amount > MAX_TRANSFER_WITHOUT_APPROVAL
             /\ data.status = "completed"
             /\ (data.approvedBy = NONE \/ TrimIsEmpty(data.approvedBy))
     THEN Err("APPROVAL REQUIRED: Transfers over {:.2} require approval before completion",
              <<MAX_TRANSFER_WITHOUT_APPROVAL>>)
     ELSE IF /\ data.amount > MAX_TRANSFER_WITHOUT_APPROVAL
             /\ data.status = "completed"
             /\ data.approvedAt = NoTime
     THEN Err("AUDIT: Approved transfers must have approvedAt timestamp", <<>>)
     ELSE Ok

BankAccountTypes == <<"current", "savings">>
BankAccountBalanceFloor == 0 - 50000000

validate_bank_account(context) ==
  LET data == context.proposed IN
  IF data.accountType = NONE THEN Err("Missing accountType", <<>>)
  ELSE IF ~InSeq(data.accountType, BankAccountTypes)
  THEN Err("Invalid accountType '{}'. Must be: current or savings", <<data.accountType>>)
  ELSE IF data.balance # NoAmount /\ data.balance < BankAccountBalanceFloor
  THEN Err("FRAUD ALERT: Account balance {:.2} is unreasonably negative. Verify account integrity.",
           <<data.balance>>)
  ELSE Ok

(***************************************************************************)
(* modules/fees.rs                                                         *)
(***************************************************************************)
IsoYearMin == 1900
IsoYearMax == 2100

validate_iso_date(date_str) ==
  LET parts == split(date_str, "-") IN
  IF StrLen(date_str) # 10
  THEN Err("Invalid date format: {}. Expected YYYY-MM-DD", <<date_str>>)
  ELSE IF Len(parts) # 3
  THEN Err("Invalid date format: {}. Expected YYYY-MM-DD", <<date_str>>)
  ELSE IF Len(parts[1]) # 4 \/ ~AllChars(parts[1], is_numeric)
  THEN Err("Invalid year in date: {}", <<date_str>>)
  ELSE IF Len(parts[2]) # 2 \/ ~AllChars(parts[2], is_numeric)
  THEN Err("Invalid month in date: {}", <<date_str>>)
  ELSE IF Len(parts[3]) # 2 \/ ~AllChars(parts[3], is_numeric)
  THEN Err("Invalid day in date: {}", <<date_str>>)
  ELSE IF ParseDigits(parts[1]) < IsoYearMin \/ ParseDigits(parts[1]) > IsoYearMax
  THEN Err("Year out of range: {}", <<date_str>>)
  ELSE IF ParseDigits(parts[2]) < 1 \/ ParseDigits(parts[2]) > 12
  THEN Err("Month out of range: {}", <<date_str>>)
  ELSE IF ParseDigits(parts[3]) < 1 \/ ParseDigits(parts[3]) > 31
  THEN Err("Day out of range: {}", <<date_str>>)
  ELSE Ok

\* the checks of one fee item, in the order of the loop body
\* (is_optional.unwrap_or(false): an absent flag is FALSE)
FeeItemCheck(item) ==
  IF TrimIsEmpty(item.category_id)
  THEN Err("feeItem must have categoryId", <<>>)
  ELSE IF item.amount < 0
  THEN Err("Fee item {} has negative amount", <<item.category_id>>)
  ELSE IF item.is_mandatory /\ item.is_optional
  THEN Err("Fee item {} cannot be both mandatory and optional", <<item.category_id>>)
  ELSE Ok

ScholarshipCheck(data) ==
  IF TrimIsEmpty(data.scholarship_id)
  THEN Err("scholarshipId cannot be empty string", <<>>)
  ELSE IF data.scholarship_type = NONE
  THEN Err("scholarshipType is required when scholarshipId is present", <<>>)
  ELSE IF ~InSeq(data.scholarship_type, <<"percentage", "fixed_amount", "waiver">>)
  THEN Err("scholarshipType must be 'percentage', 'fixed_amount', or 'waiver'", <<>>)
  ELSE IF data.discount_amount = NoAmount
  THEN Err("discountAmount is required when scholarship is applied", <<>>)
  ELSE IF data.discount_amount < 0
  THEN Err("discountAmount cannot be negative", <<>>)
  ELSE IF data.original_amount = NoAmount
  THEN Err("originalAmount is required when scholarship is applied", <<>>)
  ELSE IF data.discount_amount > data.original_amount
  THEN Err("discountAmount cannot exceed originalAmount", <<>>)
  ELSE IF data.scholarship_type = "percentage" /\ data.scholarship_value = NoAmount
  THEN Err("scholarshipValue is required for percentage type", <<>>)
  ELSE IF /\ data.scholarship_type = "percentage"
          /\ (data.scholarship_value < 0 \/ data.scholarship_value > 100)
  THEN Err("scholarshipValue for percentage must be between 0 and 100", <<>>)
  ELSE IF Abs(data.total_amount - (data.original_amount - data.discount_amount)) > Tolerance
  THEN Err("totalAmount ({}) should equal originalAmount ({}) minus discountAmount ({})",
           <<data.total_amount, data.original_amount, data.discount_amount>>)
  ELSE Ok

validate_student_fee_assignment(context) ==
  LET data == context.proposed
      item(i) == FeeItemCheck(data.fee_items[i])
      items == FirstFailure(item, 1, Len(data.fee_items))
      scholarship == IF data.scholarship_id # NONE THEN ScholarshipCheck(data) ELSE Ok
  IN IF TrimIsEmpty(data.student_id) THEN Err("studentId is required", <<>>)
     ELSE IF TrimIsEmpty(data.student_name) THEN Err("studentName is required", <<>>)
     ELSE IF TrimIsEmpty(data.class_id) THEN Err("classId is required", <<>>)
     ELSE IF TrimIsEmpty(data.fee_structure_id) THEN Err("feeStructureId is required", <<>>)
     ELSE IF TrimIsEmpty(data.academic_year) THEN Err("academicYear is required", <<>>)
     ELSE IF ~InSeq(data.term, <<"first", "second", "third">>)
     THEN Err("term must be 'first', 'second', or 'third'", <<>>)
     ELSE IF data.fee_items = <<>> THEN Err("feeItems cannot be empty", <<>>)
     ELSE IF ~IsOk(items) THEN items
     ELSE IF ~IsOk(scholarship) THEN scholarship
     ELSE IF data.total_amount < 0 THEN Err("totalAmount cannot be negative", <<>>)
     ELSE IF data.amount_paid < 0 THEN Err("amountPaid cannot be negative", <<>>)
     ELSE IF Abs(data.balance - (data.total_amount - data.amount_paid)) > Tolerance
     THEN Err("balance ({}) must equal totalAmount ({}) minus amountPaid ({})",
              <<data.balance, data.total_amount, data.amount_paid>>)
     ELSE IF ~InSeq(data.status, <<"unpaid", "partial", "paid", "overpaid">>)
     THEN Err("status must be 'unpaid', 'partial', 'paid', or 'overpaid'", <<>>)
     ELSE IF data.amount_paid = 0 /\ data.status # "unpaid"
     THEN Err("status must be 'unpaid' when amountPaid is 0", <<>>)
     ELSE IF data.balance = 0 /\ data.status # "paid"
     THEN Err("status must be 'paid' when balance is 0", <<>>)
     ELSE IF data.balance < 0 /\ data.status # "overpaid"
     THEN Err("status must be 'overpaid' when balance is negative", <<>>)
     ELSE IF data.amount_paid > 0 /\ data.balance > 0 /\ data.status # "partial"
     THEN Err("status must be 'partial' when partially paid", <<>>)
     ELSE IF data.due_date # NONE THEN validate_iso_date(data.due_date)
     ELSE Ok

\* the byte order of the characters of a date string
CharCode(c) ==
  CASE c = "-" -> 45 [] c = "/" -> 47 [] c \in Digits -> 48 + DigitValue(c)

\* String's <= : the lexicographic order of the bytes
RECURSIVE StrLeq(_, _)
StrLeq(a, b) ==
  IF a = <<>> THEN TRUE
  ELSE IF b = <<>> THEN FALSE
  ELSE IF CharCode(Head(a)) < CharCode(Head(b)) THEN TRUE
  ELSE IF CharCode(Head(a)) > CharCode(Head(b)) THEN FALSE
  ELSE StrLeq(Tail(a), Tail(b))

ScholarshipTypes == <<"percentage", "fixed_amount", "full_waiver">>
ApplicableTo == <<"all", "specific_classes", "specific_students">>
ScholarshipStatuses == <<"active", "suspended", "expired">>

\* an Option<Vec<String>> is a sequence of at most one list of ids
validate_scholarship(context) ==
  LET data == context.proposed
      start == validate_iso_date(data.start_date)
      end == validate_iso_date(data.end_date)
  IN IF TrimIsEmpty(data.name) THEN Err("name cannot be empty", <<>>)
     ELSE IF ~InSeq(data.scholarship_type, ScholarshipTypes)
     THEN Err("type must be 'percentage', 'fixed_amount', or 'full_waiver'", <<>>)
     ELSE IF data.scholarship_type = "percentage" /\ data.percentage_off = NoAmount
     THEN Err("percentageOff is required for percentage type", <<>>)
     ELSE IF /\ data.scholarship_type = "percentage"
             /\ (data.percentage_off < 0 \/ data.percentage_off > 100)
     THEN Err("percentageOff must be between 0 and 100", <<>>)
     ELSE IF data.scholarship_type = "fixed_amount" /\ data.fixed_amount_off = NoAmount
     THEN Err("fixedAmountOff is required for fixed_amount type", <<>>)
     ELSE IF data.scholarship_type = "fixed_amount" /\ data.fixed_amount_off <= 0
     THEN Err("fixedAmountOff must be greater than 0", <<>>)
     ELSE IF ~InSeq(data.applicable_to, ApplicableTo)
     THEN Err("applicableTo must be 'all', 'specific_classes', or 'specific_students'", <<>>)
     ELSE IF data.applicable_to = "specific_classes" /\ data.class_ids = <<>>
     THEN Err("classIds is required when applicableTo is 'specific_classes'", <<>>)
     ELSE IF data.applicable_to = "specific_classes" /\ data.class_ids[1] = <<>>
     THEN Err("classIds cannot be empty for specific_classes", <<>>)
     ELSE IF data.applicable_to = "specific_students" /\ data.student_ids = <<>>
     THEN Err("studentIds is required when applicableTo is 'specific_students'", <<>>)
     ELSE IF data.applicable_to = "specific_students" /\ data.student_ids[1] = <<>>
     THEN Err("studentIds cannot be empty for specific_students", <<>>)
     ELSE IF ~IsOk(start) THEN start
     ELSE IF data.end_date # NONE /\ ~IsOk(end) THEN end
     ELSE IF data.end_date # NONE /\ StrLeq(Chars(data.end_date), Chars(data.start_date))
     THEN Err("endDate must be after startDate", <<>>)
     ELSE IF data.max_beneficiaries # NoAmount /\ data.max_beneficiaries < 1
     THEN Err("maxBeneficiaries must be at least 1", <<>>)
     ELSE IF /\ data.max_beneficiaries # NoAmount
             /\ (IF data.current_beneficiaries = NoAmount THEN 0
                 ELSE data.current_beneficiaries) > data.max_beneficiaries
     THEN Err("currentBeneficiaries cannot exceed maxBeneficiaries", <<>>)
     ELSE IF ~InSeq(data.status, ScholarshipStatuses)
     THEN Err("status must be 'active', 'suspended', or 'expired'", <<>>)
     ELSE IF TrimIsEmpty(data.created_by) THEN Err("createdBy cannot be empty", <<>>)
     ELSE Ok

(***************************************************************************)
(* lib.rs: the dispatcher registered as the assert_set_doc hook.  Its arms *)
(* call the document validators by name; the validators modelled are those *)
(* of modules/, whose transition tables, uniqueness checks and order of    *)
(* checks the copies in lib.rs share.                                      *)
(***************************************************************************)
assert_set_doc(context) ==
  CASE context.collection = "expenses" -> validate_expense_document(context)
    [] context.collection = "expense_categories" -> validate_expense_category_document(context)
    [] context.collection = "students" -> validate_student_document(context)
    [] context.collection = "payments" -> validate_payment_document(context)
    [] context.collection = "staff" -> validate_staff_document(context)
    [] context.collection = "salary_payments" -> validate_salary_payment_document(context)
    [] context.collection = "budgets" -> Ok
    [] context.collection = "fee_categories" -> Ok
    [] context.collection = "fee_assignments" -> Ok
    [] context.collection = "classes" -> Ok
    [] OTHER -> Err("Unknown collection: {}", <<context.collection>>)

\* the rule pipeline a module provides for a collection (the pub fn of the
\* module that validates records of that type)
HasPipeline(collection) ==
  collection \in {"expenses", "expense_categories", "students", "payments", "staff",
                  "salary_payments", "fee_assignments", "scholarships", "bank_transactions",
                  "inter_account_transfers", "bank_accounts"}

Pipeline(context) ==
  CASE context.collection = "expenses" -> validate_expense_document(context)
    [] context.collection = "expense_categories" -> validate_expense_category_document(context)
    [] context.collection = "students" -> validate_student_document(context)
    [] context.collection = "payments" -> validate_payment_document(context)
    [] context.collection = "staff" -> validate_staff_document(context)
    [] context.collection = "salary_payments" -> validate_salary_payment_document(context)
    [] context.collection = "fee_assignments" -> validate_student_fee_assignment(context)
    [] context.collection = "scholarships" -> validate_scholarship(context)
    [] context.collection = "bank_transactions" -> validate_bank_transaction(context)
    [] context.collection = "inter_account_transfers" -> validate_transfer(context)
    [] context.collection = "bank_accounts" -> validate_bank_account(context)

(***************************************************************************)
(* Records proposed by clients.  Each builder spans the product of the     *)
(* given field values.                                                     *)
(***************************************************************************)
Collections ==
  {"expenses", "expense_categories", "students", "payments", "staff", "salary_payments",
   "budgets", "fee_categories", "fee_assignments", "classes",
   "scholarships", "bank_transactions", "inter_account_transfers", "bank_accounts",
   "audit_log"}

CreatedAt == ClockStart - 48

Expenses(statuses, refs, amounts, vendors, dates, cats, methods, bys, ats, notes) ==
  {[status |-> st, reference |-> r, amount |-> a, vendor_name |-> v, payment_date |-> d,
    category_id |-> c, payment_method |-> m, approved_by |-> b, approved_at |-> t,
    created_at |-> CreatedAt, notes |-> n] :
     st \in statuses, r \in refs, a \in amounts, v \in vendors, d \in dates, c \in cats,
     m \in methods, b \in bys, t \in ats, n \in notes}

ExpenseStatuses == {"pending", "approved", "rejected", "paid"}

Allocation(feeType, amount) ==
  [category_id |-> "fc1", category_name |-> "Tuition", fee_type |-> feeType, amount |-> amount]

Payments(statuses, refs, amounts, allocs, dates, methods, notes) ==
  {[status |-> st, reference |-> r, amount |-> a, fee_allocations |-> al, payment_date |-> d,
    payment_method |-> m, notes |-> n, fee_assignment_id |-> "fa1"] :
     st \in statuses, r \in refs, a \in amounts, al \in allocs, d \in dates,
     m \in methods, n \in notes}

Item(name, amount) == [name |-> name, amount |-> amount]

Salaries(statuses, refs, staffIds, basics, allowances, deductions, drifts, payDates, starts, ends, methods, processors) ==
  {[status |-> st, reference |-> r, staff_id |-> sid, basic_salary |-> b, allowances |-> al,
    deductions |-> de, net_salary |-> b + SumAmounts(al) - SumAmounts(de) + dr,
    payment_date |-> pd, payment_period_start |-> ps, payment_period_end |-> pe,
    payment_method |-> m, processed_by |-> pb] :
     st \in statuses, r \in refs, sid \in staffIds, b \in basics, al \in allowances,
     de \in deductions, dr \in drifts, pd \in payDates, ps \in starts, pe \in ends,
     m \in methods, pb \in processors}

Staff(numbers, basics, types, dates, departments, allowances) ==
  {[staff_number |-> n, basic_salary |-> b, employment_type |-> t, employment_date |-> d,
    department |-> dp, allowances |-> al] :
     n \in numbers, b \in basics, t \in types, d \in dates, dp \in departments,
     al \in allowances}

Students(admissions, classes) ==
  {[admission_number |-> a, class_id |-> c] : a \in admissions, c \in classes}

Categories(names, lens, codes) ==
  {[name |-> n, description_len |-> l, budget_code |-> c] :
     n \in names, l \in lens, c \in codes}

Transfers(statuses, froms, tos, amounts, bys, ats) ==
  {[status |-> st, fromAccountId |-> f, toAccountId |-> t, amount |-> a, approvedBy |-> b,
    approvedAt |-> at] :
     st \in statuses, f \in froms, t \in tos, a \in amounts, b \in bys, at \in ats}

BankTransactions(debits, credits, balances, statuses, flags) ==
  {[debitAmount |-> d, creditAmount |-> c, balance |-> b, status |-> st, isReconciled |-> f] :
     d \in debits, c \in credits, b \in balances, st \in statuses, f \in flags}

BankAccounts(types, balances, numbers) ==
  {[accountType |-> t, balance |-> b, accountNumber |-> n] :
     t \in types, b \in balances, n \in numbers}

FeeItem(amount, mandatory, optional) ==
  [category_id |-> "fc1", amount |-> amount, is_mandatory |-> mandatory, is_optional |-> optional]

FeeAssignments(students, terms, items, scholarships, totals, paids, drifts, statuses, dues) ==
  {[student_id |-> s, student_name |-> "Amina Bello", class_id |-> "cls1",
    fee_structure_id |-> "fs1", academic_year |-> "2024/2025", term |-> t, fee_items |-> it,
    scholarship_id |-> sc.id, scholarship_type |-> sc.type, scholarship_value |-> sc.value,
    discount_amount |-> sc.discount, original_amount |-> sc.original,
    total_amount |-> tot, amount_paid |-> p, balance |-> tot - p + dr, status |-> st,
    due_date |-> d] :
     s \in students, t \in terms, it \in items, sc \in scholarships, tot \in totals,
     p \in paids, dr \in drifts, st \in statuses, d \in dues}

NoScholarship ==
  [id |-> NONE, type |-> NONE, value |-> NoAmount, discount |-> NoAmount, original |-> NoAmount]

Scholarships(names, types, percentages, fixeds, targets, classes, starts, ends, maxes, currents, statuses) ==
  {[name |-> n, scholarship_type |-> t, percentage_off |-> pc, fixed_amount_off |-> fx,
    applicable_to |-> a, class_ids |-> c, student_ids |-> <<>>, start_date |-> sd,
    end_date |-> ed, max_beneficiaries |-> mx, current_beneficiaries |-> cu, status |-> st,
    created_by |-> "bursar"] :
     n \in names, t \in types, pc \in percentages, fx \in fixeds, a \in targets, c \in classes,
     sd \in starts, ed \in ends, mx \in maxes, cu \in currents, st \in statuses}

Plain == {[name |-> n] : n \in {"first", "second"}}

(***************************************************************************)
(* The records clients propose in the store machine: well-formed records   *)
(* of every status, reference and companion-field combination, and a few   *)
(* records a primitive check rejects.                                      *)
(***************************************************************************)
Proposals(collection) ==
  CASE collection = "expenses" ->
         Expenses(ExpenseStatuses, {"EXP-2024-AB12CD34", "EXP-2024-ZZ99YY88"}, {150000},
                  {NONE, "Acme"}, {"2024-03-15"}, {"cat1"}, {"cash"}, {NONE, "bursar"},
                  {NoTime, now}, {NONE, "duplicate invoice"})
         \cup Expenses({"approved"}, {"EXP-2024-AB12CD34"}, {0, 150000}, {NONE},
                       {"2024-03-15"}, {"cat1", "cat9"}, {"cash"}, {"bursar"}, {now}, {NONE})
    [] collection = "payments" ->
         Payments({"pending", "confirmed", "cancelled", "refunded"},
                  {"PAY-2024-AB12CD34", "PAY-2024-ZZ99YY88"}, {500000},
                  {<<Allocation("tuition", 500000)>>,
                   <<Allocation("tuition", 300000), Allocation("books", 100000)>>},
                  {"2024-03-15"}, {"cash"}, {NONE, "duplicate invoice"})
    [] collection = "salary_payments" ->
         Salaries({"pending", "approved", "paid"}, {"SAL-2024-03-AB12CD", "SAL-2024-03-ZZ99YY"},
                  {"st1", "st2"}, {20000000}, {<<Item("housing", 5000000)>>},
                  {<<Item("tax", 3000000)>>}, {0, 100000}, {"2024-03-31"}, {"2024-03-01"},
                  {"2024-03-31"}, {"bank_transfer"}, {"", "hr"})
    [] collection = "staff" ->
         Staff({"S001", "S002"}, {0, 20000000}, {"full-time"}, {"2024-03-01"},
               {NONE, "Science"}, {<<>>})
    [] collection = "students" ->
         Students({NONE, "", "ADM1", "adm1", "ADM2"}, {NONE, "cls1", "cls9"})
    [] collection = "expense_categories" ->
         Categories({"Utilities", "UTILITIES", "Transport", "IT"}, {NoAmount, 20}, {NONE})
    [] collection = "fee_assignments" ->
         FeeAssignments({"stu1"}, {"first"}, {<<FeeItem(500000, TRUE, FALSE)>>}, {NoScholarship},
                        {500000}, {0, 200000}, {0, 100000}, {"unpaid", "partial"}, {NONE})
    [] collection = "inter_account_transfers" ->
         Transfers({"pending", "approved", "completed"}, {"acc1"}, {"acc2"}, {1000, 6000000},
                   {NONE, "cfo"}, {NoTime, now})
    [] collection = "bank_transactions" ->
         BankTransactions({0, 1000}, {0, 1000}, {500}, {"pending"}, {FALSE})
    [] collection = "bank_accounts" ->
         BankAccounts({"current", "overdraft"}, {0}, {"0123456789"})
    [] OTHER -> Plain

(***************************************************************************)
(* The host.  A write attempt of a client is validated against the store   *)
(* as it stands (Validate: the assert_set_doc hook), and an accepted write *)
(* is then committed (Commit); a rejected one is returned to the client    *)
(* (Return).  pend[w] holds the attempt of writer w between the two.       *)
(***************************************************************************)
Idle == [phase |-> "idle"]

Context(collection, key, proposed) ==
  [collection |-> collection, key |-> key,
   current |-> Current(collection, key), proposed |-> proposed]

\* a hook that stores the proposed record itself
AfterAssertStored(context) ==
  [store EXCEPT ![context.collection] =
     [k \in DOMAIN @ \cup {context.key} |->
        IF k = context.key THEN context.proposed ELSE @[k]]]

\* the store after the hook has run: the engine only reads
AfterAssert(context) == store

Validate(w, key, proposed) ==
  LET context == Context(focus, key, proposed) IN
  /\ pend[w].phase = "idle"
  /\ pend' = [pend EXCEPT ![w] = [phase |-> "validated", via |-> "assert_set_doc",
                                  context |-> context, res |-> assert_set_doc(context)]]
  /\ store' = AfterAssert(context)
  /\ UNCHANGED <<focus, now, overflow_checks>>

\* the rule pipeline of a module applied to a write attempt directly
ValidateModule(w, key, proposed) ==
  LET context == Context(focus, key, proposed) IN
  /\ pend[w].phase = "idle"
  /\ HasPipeline(focus)
  /\ pend' = [pend EXCEPT ![w] = [phase |-> "validated", via |-> "module",
                                  context |-> context, res |-> Pipeline(context)]]
  /\ store' = AfterAssert(context)
  /\ UNCHANGED <<focus, now, overflow_checks>>

Put(docs, key, data) ==
  [k \in DOMAIN docs \cup {key} |-> IF k = key THEN data ELSE docs[k]]

\* atomic single-record commit; a record proposed without a key is stored
\* under a key the store assigns
Commit(w) ==
  /\ pend[w].phase = "validated"
  /\ IsOk(pend[w].res)
  /\ LET context == pend[w].context IN
     \E key \in (IF context.key = EmptyKey
                 THEN Keys \ DOMAIN store[context.collection]
                 ELSE {context.key}) :
        store' = [store EXCEPT ![context.collection] = Put(@, key, context.proposed)]
  /\ pend' = [pend EXCEPT ![w] = Idle]
  /\ UNCHANGED <<focus, now, overflow_checks>>

Return(w) ==
  /\ pend[w].phase = "validated"
  /\ ~IsOk(pend[w].res)
  /\ pend' = [pend EXCEPT ![w] = Idle]
  /\ UNCHANGED <<store, focus, now, overflow_checks>>

ReferenceData ==
  [c \in Collections |->
     CASE c = "expense_categories" ->
            [k \in {"cat1"} |-> [name |-> "Stationery", description_len |-> NoAmount,
                                 budget_code |-> NONE]]
       [] c = "classes" -> [k \in {"cls1"} |-> [name |-> "first"]]
       [] c = "fee_categories" -> [k \in {"fc1"} |-> [name |-> "first"]]
       [] c = "fee_assignments" ->
            [k \in {"fa1"} |->
               CHOOSE d \in FeeAssignments({"stu1"}, {"first"}, {<<FeeItem(500000, TRUE, FALSE)>>},
                                           {NoScholarship}, {500000}, {0}, {0}, {"unpaid"},
                                           {NONE}) : TRUE]
       [] OTHER -> <<>>]

Init ==
  /\ focus \in Collections
  /\ store = ReferenceData
  /\ pend = [w \in Writers |-> Idle]
  /\ now = ClockStart
  /\ overflow_checks \in BOOLEAN

\* one client at a time: a write is validated and committed before the next
Next ==
  \/ \E key \in Keys \cup {EmptyKey}, proposed \in Proposals(focus) : Validate(1, key, proposed)
  \/ Commit(1)
  \/ Return(1)

Spec == Init /\ [][Next]_vars

(***************************************************************************)
(* Records that were committed before: the dispatched variant of the       *)
(* expense rules (lib.rs) creates expenses as 'pending', so a store can    *)
(* hold a record of every status of its type.                              *)
(***************************************************************************)
Seeds(collection) ==
  CASE collection = "expenses" ->
         Expenses({"pending"}, {"EXP-2024-AB12CD34"}, {150000}, {"Acme"}, {"2024-03-15"},
                  {"cat1"}, {"cash"}, {NONE}, {NoTime}, {NONE})
         \cup Expenses({"approved", "paid"}, {"EXP-2024-AB12CD34"}, {150000}, {"Acme"},
                       {"2024-03-15"}, {"cat1"}, {"cash"}, {"bursar"}, {now}, {NONE})
         \cup Expenses({"rejected"}, {"EXP-2024-AB12CD34"}, {150000}, {"Acme"},
                       {"2024-03-15"}, {"cat1"}, {"cash"}, {NONE}, {NoTime},
                       {"duplicate invoice"})
    [] collection = "payments" ->
         Payments({"pending", "confirmed"}, {"PAY-2024-AB12CD34"}, {500000},
                  {<<Allocation("tuition", 500000)>>}, {"2024-03-15"}, {"cash"}, {NONE})
         \cup Payments({"cancelled", "refunded"}, {"PAY-2024-AB12CD34"}, {500000},
                       {<<Allocation("tuition", 500000)>>}, {"2024-03-15"}, {"cash"},
                       {"duplicate invoice"})
    [] collection = "salary_payments" ->
         Salaries({"pending", "approved", "paid"}, {"SAL-2024-03-AB12CD"}, {"st1"}, {20000000},
                  {<<Item("housing", 5000000)>>}, {<<Item("tax", 3000000)>>}, {0},
                  {"2024-03-31"}, {"2024-03-01"}, {"2024-03-31"}, {"bank_transfer"}, {"hr"})
    [] collection = "inter_account_transfers" ->
         Transfers({"pending", "rejected", "cancelled"}, {"acc1"}, {"acc2"}, {6000000},
                   {NONE}, {NoTime})
         \cup Transfers({"approved", "completed"}, {"acc1"}, {"acc2"}, {6000000},
                        {"cfo"}, {now})
    [] collection = "staff" ->
         Staff({"S001"}, {20000000}, {"full-time"}, {"2024-03-01"}, {NONE}, {<<>>})
    [] collection = "students" -> Students({"ADM1"}, {"cls1"})
    [] collection = "bank_accounts" -> BankAccounts({"current"}, {0}, {"0123456789"})
    [] OTHER -> {}

SeededStores ==
  {ReferenceData}
  \cup {[ReferenceData EXCEPT ![focus] = Put(@, "k1", d)] : d \in Seeds(focus)}

InitSeeded ==
  /\ focus \in Collections
  /\ now = ClockStart
  /\ overflow_checks \in BOOLEAN
  /\ store \in SeededStores
  /\ pend = [w \in Writers |-> Idle]

SpecSeeded == InitSeeded /\ [][Next]_vars

(***************************************************************************)
(* The records of a single call of the hook: every combination of valid    *)
(* and invalid field values.                                               *)
(***************************************************************************)
WideProposals(collection) ==
  CASE collection = "expenses" ->
         Expenses(ExpenseStatuses \cup {"archived"},
                  {"EXP-2024-AB12CD34", "EXP-2024-ZZ99YY88", "INV-2024-AB12CD34"},
                  {0, 150000}, {NONE, "Acme"}, {"2024-03-15", "15/03/2024"}, {"cat1", "cat9"},
                  {"cash", "barter"}, {NONE, "", "bursar"},
                  {NoTime, CreatedAt, now, now + 1, now + 2},
                  {NONE, "   ", "too short", "Déjà payé", "duplicate invoice"})
    [] collection = "payments" ->
         Payments({"pending", "confirmed", "cancelled", "refunded", "archived"},
                  {"PAY-2024-AB12CD34", "PAY-2024-ZZ99YY88", "REC-2024-AB12CD34"},
                  {0, 500000},
                  {<<>>, <<Allocation("tuition", 500000)>>, <<Allocation("tuition", 300000)>>,
                   <<Allocation("raffle", 500000)>>,
                   <<Allocation("tuition", 300000), Allocation("books", 200000)>>,
                   [i \in 1..MaxFeeAllocations |-> Allocation("tuition", 25000)],
                   [i \in 1..(MaxFeeAllocations + 1) |->
                      Allocation("tuition", IF i <= MaxFeeAllocations THEN 25000 ELSE 0)]},
                  {"2024-03-15", "15/03/2024"}, {"cash", "barter"},
                  {NONE, "   ", "duplicate invoice"})
         \cup {[p EXCEPT !.fee_assignment_id = fa] :
                 p \in Payments({"pending", "confirmed"}, {"PAY-2024-AB12CD34"}, {500000},
                                {<<Allocation("tuition", 500000)>>,
                                 <<[Allocation("tuition", 500000) EXCEPT !.category_id = "fc9"]>>},
                                {"2024-03-15"}, {"cash"}, {NONE}),
                 fa \in {"fa1", "fa9"}}
         \cup Payments({"pending"}, {"PAY-2024-AB12CD34"}, {5000, 500000},
                       {<<Allocation("tuition", 500000), Allocation("books", 0)>>,
                        <<Allocation("tuition", 600000), Allocation("books", 0 - 100000)>>,
                        <<Allocation("tuition", 5000)>>},
                       {"2024-03-15"}, {"cash"}, {NONE})
    [] collection = "salary_payments" ->
         Salaries({"pending", "approved", "paid", "archived"},
                  {"SAL-2024-03-AB12CD", "SAL-2024-03-ZZ99YY", "PAY-2024-03-AB12CD"},
                  {"st1"}, {0, 20000000},
                  {<<Item("housing", 5000000)>>,
                   <<Item("housing", 5000000), Item("housing", 100)>>},
                  {<<Item("tax", 3000000)>>}, {0, 100000},
                  {"2024-03-31", "2024-06-30"}, {"2024-03-01"}, {"2024-03-31", "2024-02-01"},
                  {"bank_transfer", "barter"}, {"", "hr"})
         \cup Salaries({"pending"}, {"SAL-2024-03-AB12CD"}, {"st1"}, {20000000},
                       {<<>>, <<Item("housing", 0)>>, <<Item("housing", 5000000)>>},
                       {<<>>, <<Item("tax", 0 - 3000000)>>, <<Item("tax", 3000000)>>}, {0},
                       {"2024-03-31"}, {"2024-03-01"}, {"2024-03-31"}, {"bank_transfer"},
                       {"hr"})
         \cup Salaries({"pending"},
                       {"SAL-2024-12-ab12cd", "SAL-2024-13-AB12CD", "SAL-2024-00-AB12CD",
                        "SAL-2024-0A-AB12CD", "SAL-24-03-AB12CD", "SAL-2024-3-AB12CD7",
                        "SAL-2024-03-AB12C", "SAL_2024-03-AB12CD", "SAL-20X4-03-AB12CD",
                        "SAL-2024-03-AB12C#", "SAL-2024-03-ABCDé"},
                       {"st1"}, {20000000}, {<<Item("housing", 5000000)>>},
                       {<<Item("tax", 3000000)>>}, {0}, {"2024-03-31"}, {"2024-03-01"},
                       {"2024-03-31"}, {"bank_transfer"}, {"hr"})
         \cup Salaries({"pending"}, {"SAL-2024-03-AB12CD"}, {"st1"}, {20000000},
                       {<<Item("housing", 5000000)>>}, {<<Item("tax", 3000000)>>}, {0},
                       {"2024-01-31", "2024-03-31"}, {"2024-02-01", "2024-03-01"},
                       {"2024-01-31", "2024-03-31"}, {"bank_transfer"}, {"hr"})
    [] collection = "staff" ->
         Staff({"S001", "S002"}, {0, 20000000}, {"full-time", "intern"},
               {"2024-03-01", "15/03/2024", "2024-06-30", "1970-01-01"},
               {NONE, "Science", "Sci#nce"},
               {<<>>, <<Item("housing", 100), Item("housing", 200)>>})
         \cup Staff({"S001"}, {20000000}, {"full-time"},
                    {"1960-01-01", "1974-03-16", "2600-01-01", "9999-12-31"}, {NONE}, {<<>>})
    [] collection = "students" ->
         Students({NONE, "", "ADM1", "adm1", "ADM2"}, {NONE, "", "cls1", "cls9"})
    [] collection = "expense_categories" ->
         Categories({"Utilities", "UTILITIES", "Stationery", "IT"}, {NoAmount, 20, 1001},
                    {NONE, "ADM-001", "ADM001"})
    [] collection = "fee_assignments" ->
         FeeAssignments({"stu1", "   "}, {"first", "fourth"},
                        {<<>>, <<FeeItem(500000, TRUE, FALSE)>>, <<FeeItem(500000, TRUE, TRUE)>>},
                        {NoScholarship,
                         [id |-> "sch1", type |-> "percentage", value |-> 10,
                          discount |-> 50000, original |-> 550000],
                         [id |-> "sch1", type |-> "fixed_amount", value |-> NoAmount,
                          discount |-> 50000, original |-> 900000]},
                        {500000}, {0, 200000, 500000}, {0, 100000},
                        {"unpaid", "partial", "paid", "archived"}, {NONE, "2024-03-31", "15/03/2024"})
    [] collection = "scholarships" ->
         Scholarships({"Merit", "   "}, {"percentage", "fixed_amount", "grant"}, {NoAmount, 10, 101},
                      {NoAmount, 0, 50000}, {"all", "specific_classes", "specific_students"},
                      {<<>>, <<<<>>>>, <<<<"cls1">>>>}, {"2024-03-01", "15/03/2024"},
                      {NONE, "2024-03-31", "2024-02-01"}, {NoAmount, 0, 5}, {NoAmount, 6},
                      {"active", "archived"})
    [] collection = "inter_account_transfers" ->
         Transfers({NONE, "pending", "approved", "completed", "rejected", "cancelled", "archived"},
                   {NONE, "acc1"}, {"acc1", "acc2"},
                   {NoAmount, 0, 1000, 5000000, 6000000, 2000000000},
                   {NONE, "", "   ", "cfo"}, {NoTime, now})
    [] collection = "bank_transactions" ->
         BankTransactions({NoAmount, 0 - 1, 0, 1000, 2000000000}, {NoAmount, 0 - 1, 0, 1000},
                          {NoAmount, 500, 0 - 20000000}, {NONE, "pending", "reconciled", "archived"},
                          BOOLEAN)
    [] collection = "bank_accounts" ->
         BankAccounts({NONE, "current", "savings", "overdraft"}, {NoAmount, 0, 0 - 60000000},
                      {"0123456789", "9876543210"})
    [] OTHER -> Plain

\* one call of the hook at a time: the call is answered before the next
Calling(w) == pend[w].phase = "idle"

\* a call that is not followed by a commit: the accepted answer is returned
Answer(w) ==
  /\ pend[w].phase = "validated"
  /\ IsOk(pend[w].res)
  /\ pend' = [pend EXCEPT ![w] = Idle]
  /\ UNCHANGED <<store, focus, now, overflow_checks>>

NextCall ==
  \/ /\ Calling(1)
     /\ \E key \in Keys \cup {EmptyKey}, proposed \in WideProposals(focus) :
           Validate(1, key, proposed)
  \/ /\ Calling(1)
     /\ \E key \in Keys \cup {EmptyKey}, proposed \in WideProposals(focus) :
           ValidateModule(1, key, proposed)
  \/ Return(1)
  \/ Answer(1)

SpecCall == InitSeeded /\ [][NextCall]_vars

(***************************************************************************)
(* Concurrent clients: the hook answers a write attempt against the        *)
(* committed store, and the commit is a later step; attempts of other      *)
(* writers may be validated and committed in between.                      *)
(***************************************************************************)
RaceProposals(collection) ==
  CASE collection = "expenses" ->
         Expenses({"approved"}, {"EXP-2024-AB12CD34", "EXP-2024-ZZ99YY88"}, {150000}, {NONE},
                  {"2024-03-15"}, {"cat1"}, {"cash"}, {"bursar"}, {now}, {NONE})
    [] collection = "payments" ->
         Payments({"pending"}, {"PAY-2024-AB12CD34", "PAY-2024-ZZ99YY88"}, {500000},
                  {<<Allocation("tuition", 500000)>>}, {"2024-03-15"}, {"cash"}, {NONE})

InitRace ==
  /\ focus \in {"expenses", "payments"}
  /\ store = ReferenceData
  /\ pend = [w \in Writers |-> Idle]
  /\ now = ClockStart
  /\ overflow_checks \in BOOLEAN

NextRace ==
  \E w \in Writers :
    \/ /\ Calling(w)
       /\ \E key \in Keys \cup {EmptyKey}, proposed \in RaceProposals(focus) :
             Validate(w, key, proposed)
    \/ Commit(w)
    \/ Return(w)

SpecRace == InitRace /\ [][NextRace]_vars

(***************************************************************************)
(* The store machine with a clock that advances: ic_cdk::api::time() is    *)
(* read by the date checks and by the approval timestamp check, and the    *)
(* time of the host only moves forward between calls.  Clients create      *)
(* records and submit committed records again under their own key.         *)
(***************************************************************************)
MaxClockDays == 1

ClockTypes == {"expenses", "payments", "salary_payments", "staff", "students"}

ClockProposals(collection) ==
  IF collection = "staff"
  THEN Proposals(collection)
       \cup Staff({"S001"}, {20000000}, {"full-time"}, {"1974-03-16"}, {NONE}, {<<>>})
  ELSE Proposals(collection)

InitClock ==
  /\ focus \in ClockTypes
  /\ store = ReferenceData
  /\ pend = [w \in Writers |-> Idle]
  /\ now = ClockStart
  /\ overflow_checks \in BOOLEAN

\* a day passes between two calls
Tick ==
  /\ now < ClockStart + MaxClockDays * HoursPerDay
  /\ \A w \in Writers : pend[w].phase = "idle"
  /\ now' = now + HoursPerDay
  /\ UNCHANGED <<store, pend, focus, overflow_checks>>

\* a write of a record under a key that holds none
Create(w, key, proposed) ==
  /\ Current(focus, key) = <<>>
  /\ Validate(w, key, proposed)

\* the committed record of a key written again under that key
Resubmit(w, key) ==
  /\ key \in DOMAIN store[focus]
  /\ Validate(w, key, store[focus][key])

NextClock ==
  \/ \E key \in Keys \cup {EmptyKey}, proposed \in ClockProposals(focus) :
        Create(1, key, proposed)
  \/ \E key \in Keys : Resubmit(1, key)
  \/ Commit(1)
  \/ Return(1)
  \/ Tick

SpecClock == InitClock /\ [][NextClock]_vars

(***************************************************************************)
(* Properties.  Call is the write attempt the hook has answered.           *)
(***************************************************************************)
Called == pend[1].phase = "validated"
Call == pend[1]
IsUpdate == Called /\ Call.context.current # <<>>
From == Call.context.current[1].status
To == Call.context.proposed.status
Range(seq) == {seq[i] : i \in DOMAIN seq}

StatusTypes == {"expenses", "payments", "salary_payments"}

\* the transition graphs as the specification states them
Graph(collection) ==
  CASE collection = "expenses" ->
         {<<"pending", "approved">>, <<"pending", "rejected">>, <<"approved", "paid">>}
    [] collection = "payments" ->
         {<<"pending", "confirmed">>, <<"pending", "cancelled">>, <<"confirmed", "refunded">>}
    [] collection = "salary_payments" ->
         {<<"pending", "approved">>, <<"approved", "paid">>}
    [] collection = "inter_account_transfers" ->
         {<<"pending", "approved">>, <<"pending", "rejected">>, <<"pending", "cancelled">>,
          <<"approved", "completed">>}

Vocabulary(collection) ==
  CASE collection = "expenses" -> {"pending", "approved", "rejected", "paid"}
    [] collection = "payments" -> {"pending", "confirmed", "cancelled", "refunded"}
    [] collection = "salary_payments" -> {"pending", "approved", "paid"}
    [] collection = "inter_account_transfers" ->
         {"pending", "approved", "completed", "rejected", "cancelled"}

Successors(collection, from) == {to \in Vocabulary(collection) : <<from, to>> \in Graph(collection)}

TerminalStatuses(collection) ==
  {st \in Vocabulary(collection) : Successors(collection, st) = {}}

TransitionStep(collection) ==
  CASE collection = "expenses" -> "validate_expense_status_transition"
    [] collection = "payments" -> "validate_payment_status_transitions"
    [] collection = "salary_payments" -> "validate_salary_status_transitions"

TransitionText(collection) ==
  CASE collection = "expenses" -> ExpenseTransitionText
    [] collection = "payments" -> PaymentTransitionText
    [] collection = "salary_payments" -> SalaryTransitionText

\* an update between two different statuses of the vocabulary that is no edge
OffGraphUpdate ==
  /\ IsUpdate
  /\ From \in Vocabulary(focus)
  /\ To \in Vocabulary(focus)
  /\ From # To
  /\ <<From, To>> \notin Graph(focus)

\* C1: an update of an expense, payment or salary run between two different
\* statuses of the vocabulary that is no edge of the type's graph is rejected,
\* and when the checks before the transition check have passed, the rejection
\* is the transition error naming the previous status, the proposed status and
\* the allowed successors of the previous status.
C1_OffGraphUpdateRejected ==
  (focus \in StatusTypes /\ OffGraphUpdate) =>
    /\ ~IsOk(Call.res)
    /\ InSeq(TransitionStep(focus), Call.res.ran) =>
         /\ Call.res.tag = TransitionText(focus)
         /\ Call.res.args[1] = From
         /\ Call.res.args[2] = To
         /\ Range(Call.res.args[3]) = Successors(focus, From)

C1_Witness ==
  /\ focus \in StatusTypes
  /\ OffGraphUpdate
  /\ From = "paid"
  /\ To = "pending"
  /\ Call.res.tag = TransitionText(focus)

\* C2: a committed record in a terminal status keeps that status in every
\* step, hence in every later committed version of its key.
C2_TerminalStatusKept ==
  [][\A c \in StatusTypes : \A k \in DOMAIN store[c] :
       store[c][k].status \in TerminalStatuses(c) =>
         /\ k \in DOMAIN store'[c]
         /\ store'[c][k].status = store[c][k].status]_vars

\* an accepted rewrite of a record in a terminal status, ready to commit
C2_Witness ==
  /\ focus \in StatusTypes
  /\ IsUpdate
  /\ From \in TerminalStatuses(focus)
  /\ IsOk(Call.res)
  /\ Call.context.proposed # Call.context.current[1]

\* C3: validate_transfer rejects every update of a transfer between two
\* different statuses that is no edge of pending->{approved,rejected,cancelled},
\* approved->{completed}.
C3_TransferGraphEnforced ==
  (focus = "inter_account_transfers" /\ Called /\ Call.via = "module" /\ OffGraphUpdate) =>
    ~IsOk(Call.res)

\* a completed transfer written back to pending, accepted by validate_transfer
C3_Witness ==
  /\ focus = "inter_account_transfers"
  /\ Called
  /\ Call.via = "module"
  /\ IsUpdate
  /\ From = "completed"
  /\ To = "pending"
  /\ IsOk(Call.res)

ReferenceStep(collection) ==
  CASE collection = "expenses" -> "validate_expense_reference_uniqueness"
    [] collection = "payments" -> "validate_payment_reference_uniqueness"
    [] collection = "salary_payments" -> "validate_salary_reference_uniqueness"

AlreadyExists(collection) ==
  CASE collection = "expenses" -> "Expense reference '{}' already exists"
    [] collection = "payments" -> "Payment reference '{}' already exists"
    [] collection = "salary_payments" -> "Salary reference '{}' already exists"
    [] collection = "staff" -> "Staff number '{}' already exists"
    [] collection = "students" -> "Admission number '{}' already exists"
    [] collection = "expense_categories" -> "Category name '{}' is already taken"

\* the committed records, other than the one being written, that hold the
\* reference code of the attempt
OtherHolders(attempt) ==
  {k \in DOMAIN store[attempt.context.collection] :
     /\ k # attempt.context.key
     /\ store[attempt.context.collection][k].reference = attempt.context.proposed.reference}

\* C4: with writes applied one after the other, a write whose reference code
\* is held by a committed record under another key is rejected, with the
\* 'already exists' error when the reference check is reached; hence no two
\* committed records of a collection share a reference code.
C4_SequentialReferenceUnique ==
  /\ \A c \in StatusTypes : \A k1, k2 \in DOMAIN store[c] :
       k1 # k2 => store[c][k1].reference # store[c][k2].reference
  /\ (focus \in StatusTypes /\ Called /\ OtherHolders(Call) # {}) =>
       /\ ~IsOk(Call.res)
       /\ InSeq(ReferenceStep(focus), Call.res.ran) =>
            Call.res.tag = AlreadyExists(focus)

C4_Witness ==
  /\ focus \in StatusTypes
  /\ Called
  /\ OtherHolders(Call) # {}
  /\ Call.context.current = <<>>
  /\ Call.res.tag = AlreadyExists(focus)

\* C5: the answer of the reference check to a write attempt is decided by the
\* committed records alone: it is 'already exists' exactly when a committed
\* record under another key holds the code, whatever attempts of other writers
\* are validated and not yet committed.  Two attempts with one code are
\* therefore both accepted when neither has committed, and both commit.
C5_VerdictIgnoresInFlight ==
  [][\A w \in Writers :
       (pend[w].phase = "idle" /\ pend'[w].phase = "validated") =>
         /\ InSeq(ReferenceStep(focus), pend'[w].res.ran)
         /\ (pend'[w].res.tag = AlreadyExists(focus)) <=> (OtherHolders(pend'[w]) # {})
         /\ IsOk(pend'[w].res) <=> (OtherHolders(pend'[w]) = {})]_vars

\* two committed records of one collection with the same reference code
C5_Witness ==
  \E k1, k2 \in DOMAIN store[focus] :
    /\ k1 # k2
    /\ store[focus][k1].reference = store[focus][k2].reference

UniqueCollections == StatusTypes \cup {"staff", "students", "expense_categories"}

NaturalKey(collection, data) ==
  CASE collection \in StatusTypes -> data.reference
    [] collection = "staff" -> data.staff_number
    [] collection = "students" -> data.admission_number
    [] collection = "expense_categories" -> data.name

Holders(collection, value) ==
  {k \in DOMAIN store[collection] : NaturalKey(collection, store[collection][k]) = value}

Proposed == NaturalKey(focus, Call.context.proposed)
Previous == NaturalKey(focus, Call.context.current[1])

\* an update of K that keeps the value of which K is the only holder
KeepsOwn ==
  /\ focus \in UniqueCollections
  /\ IsUpdate
  /\ Proposed = Previous
  /\ Holders(focus, Proposed) = {Call.context.key}

\* an update of K that changes the value to one another committed record holds
TakesOther ==
  /\ focus \in UniqueCollections
  /\ IsUpdate
  /\ Proposed # Previous
  /\ Proposed # NONE
  /\ Holders(focus, Proposed) \ {Call.context.key} # {}

C7_DispatcherRunsPipeline ==
  (Called /\ Call.via = "assert_set_doc") =>
    IF HasPipeline(focus)
    THEN Call.res.tag = Pipeline(Call.context).tag
    ELSE focus \notin {"budgets", "fee_categories", "classes"} =>
           /\ Call.res.tag = "Unknown collection: {}"
           /\ Call.res.args = <<focus>>

\* a fee assignment the hook accepts and the fee-assignment pipeline rejects
C7_Witness ==
  /\ focus = "fee_assignments"
  /\ Called
  /\ Call.via = "assert_set_doc"
  /\ IsOk(Call.res)
  /\ ~IsOk(Pipeline(Call.context))

DeclaredOrder(collection) ==
  CASE collection = "expenses" ->
         <<"validate_expense_basic_fields", "validate_expense_status_transition",
           "validate_expense_reference_uniqueness", "validate_potential_duplicate_expense",
           "validate_expense_category_exists", "validate_expense_formats",
           "validate_expense_approval_workflow">>
    [] collection = "payments" ->
         <<"validate_payment_core_fields", "validate_payment_dates",
           "validate_payment_method_constraints", "validate_payment_status_transitions",
           "validate_payment_allocations", "validate_payment_reference_uniqueness">>
    [] collection = "salary_payments" ->
         <<"validate_salary_core_fields", "validate_salary_amounts_and_calculations",
           "validate_salary_payment_period", "validate_salary_payment_method",
           "validate_salary_status_transitions", "validate_salary_reference_uniqueness",
           "validate_salary_business_rules">>

\* one check applied on its own to a write attempt
CheckOf(name, context) ==
  LET d == context.proposed IN
  CASE name = "validate_expense_basic_fields" -> validate_expense_basic_fields(d)
    [] name = "validate_expense_status_transition" ->
         validate_expense_status_transition(context, d)
    [] name = "validate_expense_reference_uniqueness" ->
         validate_expense_reference_uniqueness(context, d.reference)
    [] name = "validate_potential_duplicate_expense" ->
         validate_potential_duplicate_expense(context, d, d.vendor_name)
    [] name = "validate_expense_category_exists" -> validate_expense_category_exists(d.category_id)
    [] name = "validate_expense_formats" -> validate_expense_formats(d)
    [] name = "validate_expense_approval_workflow" ->
         validate_expense_approval_workflow(context, d)
    [] name = "validate_payment_core_fields" -> validate_payment_core_fields(d)
    [] name = "validate_payment_dates" -> validate_payment_dates(d)
    [] name = "validate_payment_method_constraints" -> validate_payment_method_constraints(d)
    [] name = "validate_payment_status_transitions" ->
         validate_payment_status_transitions(context, d)
    [] name = "validate_payment_allocations" -> validate_payment_allocations(d)
    [] name = "validate_payment_reference_uniqueness" ->
         validate_payment_reference_uniqueness(context, d)
    [] name = "validate_salary_core_fields" -> validate_salary_core_fields(d)
    [] name = "validate_salary_amounts_and_calculations" ->
         validate_salary_amounts_and_calculations(d)
    [] name = "validate_salary_payment_period" -> validate_salary_payment_period(d)
    [] name = "validate_salary_payment_method" -> validate_salary_payment_method(d)
    [] name = "validate_salary_status_transitions" ->
         validate_salary_status_transitions(context, d)
    [] name = "validate_salary_reference_uniqueness" ->
         validate_salary_reference_uniqueness(context, d)
    [] name = "validate_salary_business_rules" -> validate_salary_business_rules(context, d)

\* the vendor duplicate check applies to an expense that names a vendor
Applies(name, context) ==
  name = "validate_potential_duplicate_expense" => context.proposed.vendor_name # NONE

ChecksOf(context) ==
  SelectSeq(DeclaredOrder(context.collection), LAMBDA name : Applies(name, context))

\* the position of the earliest failing check from position i on, 0 if none
RECURSIVE EarliestFailing(_, _, _)
EarliestFailing(checks, context, i) ==
  IF i > Len(checks) THEN 0
  ELSE IF ~IsOk(CheckOf(checks[i], context)) THEN i
  ELSE EarliestFailing(checks, context, i + 1)

\* the store queries of the first n checks
RECURSIVE QueriesOf(_, _, _)
QueriesOf(checks, context, n) ==
  IF n = 0 THEN <<>>
  ELSE QueriesOf(checks, context, n - 1) \o CheckOf(checks[n], context).q

\* C9: the answer of a pipeline is the rejection of the earliest failing
\* check of its declared order, the checks that ran are those up to it, the
\* store queries issued are those of the checks that ran, and a pipeline with
\* no failing check returns success.
C9_FailFastInDeclaredOrder ==
  (focus \in StatusTypes /\ Called) =>
    LET checks == ChecksOf(Call.context)
        i == EarliestFailing(checks, Call.context, 1)
    IN IF i = 0
       THEN /\ IsOk(Call.res)
            /\ Call.res.ran = checks
            /\ Call.res.q = QueriesOf(checks, Call.context, Len(checks))
       ELSE /\ Call.res.tag = CheckOf(checks[i], Call.context).tag
            /\ Call.res.args = CheckOf(checks[i], Call.context).args
            /\ Call.res.ran = SubSeq(checks, 1, i)
            /\ Call.res.q = QueriesOf(checks, Call.context, i)

\* an attempt with a wrong allocation sum and an illegal transition: the
\* transition, the earlier check, answers
C9_Witness ==
  /\ focus = "payments"
  /\ Called
  /\ ~IsOk(CheckOf("validate_payment_allocations", Call.context))
  /\ Call.res.tag = PaymentTransitionText
  /\ Call.res.q = <<>>

\* the companion-field errors of a status
CompanionErrors(collection, status) ==
  CASE collection = "expenses" /\ status = "approved" ->
         {"Approved expenses must have approved_by field set",
          "Approved expenses must have approved_at timestamp"}
    [] collection = "expenses" /\ status = "rejected" ->
         {"Rejected expenses must include rejection reason in notes"}
    [] collection = "payments" /\ status = "cancelled" ->
         {"Cancelled payments must include cancellation reason in notes"}
    [] collection = "payments" /\ status = "refunded" ->
         {"Refunded payments must include refund reason in notes"}
    [] collection = "salary_payments" /\ status = "approved" ->
         {"Approved salary payments must have processed_by set"}
    [] OTHER -> {}

\* C10: an update whose proposed status equals the previous status is never
\* rejected with a transition error, and when the status check rejects it, the
\* rejection is a companion-field error of that unchanged status.
C10_SelfTransitionLegal ==
  (focus \in StatusTypes /\ IsUpdate /\ From = To) =>
    /\ Call.res.tag # TransitionText(focus)
    /\ Call.res.tag # "Unknown current status: '{}'"
    /\ (~IsOk(Call.res) /\ Call.res.ran[Len(Call.res.ran)] = TransitionStep(focus)) =>
         Call.res.tag \in CompanionErrors(focus, To)

\* a record in a terminal status resubmitted with that status and accepted
C10_Witness ==
  /\ focus \in StatusTypes
  /\ IsUpdate
  /\ From = To
  /\ From \in TerminalStatuses(focus)
  /\ IsOk(Call.res)

IsCreate == Called /\ Call.context.current = <<>>

\* the statuses with which the records clients propose are accepted as new
\* records under the key of the answered attempt, in the store as it stands
AcceptedAsNew ==
  {p.status : p \in {d \in Proposals(focus) :
                       IsOk(Pipeline(Context(focus, Call.context.key, d)))}}

\* C11 as stated: for expenses, payments and salary payments a create is
\* accepted with one status value only (every create the store would accept
\* carries the status of the accepted one), and for salary payments that
\* value is 'pending'.
C11_OneInitialStatus ==
  (focus \in StatusTypes /\ IsCreate /\ IsOk(Call.res)) =>
    /\ AcceptedAsNew \subseteq {To}
    /\ focus = "salary_payments" => To = "pending"

\* C11: the same for expenses and salary payments; a payment is accepted as
\* new with 'pending' or with 'confirmed' and with no other status of the
\* vocabulary.
C11_InitialStatusPerType ==
  /\ (focus \in StatusTypes /\ IsCreate /\ IsOk(Call.res)) =>
       /\ focus # "payments" => AcceptedAsNew \subseteq {To}
       /\ focus = "salary_payments" => To = "pending"
       /\ focus = "payments" => To \in {"pending", "confirmed"}
  /\ (focus = "payments" /\ IsCreate /\ To \in {"cancelled", "refunded"}) => ~IsOk(Call.res)

\* a new payment accepted as 'confirmed' where one is accepted as 'pending' too
C11_Witness ==
  /\ focus = "payments"
  /\ IsCreate
  /\ IsOk(Call.res)
  /\ To = "confirmed"
  /\ AcceptedAsNew = {"pending", "confirmed"}

\* the expense of the scenario: 1500.00, 'pending', no approval fields
ScenarioExpense ==
  /\ Call.context.proposed.status = "pending"
  /\ Call.context.proposed.amount = 150000
  /\ Call.context.proposed.reference = "EXP-2024-AB12CD34"
  /\ Call.context.proposed.approved_by = NONE
  /\ Call.context.proposed.approved_at = NoTime
  /\ InSeq(Call.context.proposed.payment_method, ExpensePaymentMethods)
  /\ is_valid_date_format(Call.context.proposed.payment_date)
  /\ Call.context.proposed.category_id \in DOMAIN store["expense_categories"]
  /\ Call.context.proposed.vendor_name = NONE
  /\ Holders("expenses", "EXP-2024-AB12CD34") = {}

\* C12: a new expense with status 'pending', amount 1500.00, reference
\* EXP-2024-AB12CD34, no approval fields, a valid payment method and date, an
\* existing category and an unused reference is accepted by
\* validate_expense_document.
C12_PendingExpenseCreated ==
  (focus = "expenses" /\ IsCreate /\ ScenarioExpense) => IsOk(Call.res)

\* the expense of the scenario rejected by the status check of
\* modules/expenses, which the status check of lib.rs lets pass
C12_Witness ==
  /\ focus = "expenses"
  /\ IsCreate
  /\ ScenarioExpense
  /\ Call.res.tag = "Expenses cannot be saved with 'pending' status. Expenses must be approved before recording to the datastore."
  /\ Call.res.ran = <<"validate_expense_basic_fields", "validate_expense_status_transition">>
  /\ IsOk(expense_assertions_validate_expense_status_transition(Call.context, Call.context.proposed))

ApprovalErrors ==
  {"Approved expenses must have approved_by field set",
   "Approved expenses must have approved_at timestamp",
   "Approval timestamp must be after expense creation time",
   "Approval timestamp cannot be in the future"}

\* the approval fields of the proposed expense are as an approval requires
ApprovalComplete ==
  /\ Call.context.proposed.approved_by \notin {NONE, ""}
  /\ Call.context.proposed.approved_at # NoTime
  /\ Call.context.proposed.approved_at > Call.context.proposed.created_at
  /\ Call.context.proposed.approved_at <= now + one_hour

\* C13: every expense write accepted with status 'approved' carries a
\* non-empty approver and an approval timestamp after created_at and at most
\* one hour after the current time; a write to 'approved' without them is
\* rejected, with a companion-field error when the approval checks answer.
C13_ApprovedCarriesApproval ==
  (focus = "expenses" /\ Called /\ To = "approved") =>
    /\ IsOk(Call.res) => ApprovalComplete
    /\ ~ApprovalComplete =>
         /\ ~IsOk(Call.res)
         /\ Call.res.ran[Len(Call.res.ran)] = "validate_expense_approval_workflow" =>
              Call.res.tag \in ApprovalErrors

\* an expense accepted as 'approved' whose approver is the empty string
C13_Witness ==
  /\ focus = "expenses"
  /\ Called
  /\ To = "approved"
  /\ Call.context.proposed.approved_by = ""
  /\ IsOk(Call.res)

\* a reason: notes that are present, not blank and of at least min characters
ReasonGiven(notes, min) ==
  /\ notes # NONE
  /\ ~TrimIsEmpty(notes)
  /\ Len(Chars(notes)) >= min

\* C14: an expense write with status 'rejected' is accepted only with notes
\* that are present, not blank after trimming and at least 10 characters long,
\* and an update of a payment to 'cancelled' or 'refunded' is accepted only
\* with notes that are present and not blank.
C14_ReasonAccompaniesRejection ==
  /\ (focus = "expenses" /\ Called /\ To = "rejected" /\ IsOk(Call.res)) =>
       ReasonGiven(Call.context.proposed.notes, RejectionReasonMinLen)
  /\ (focus = "payments" /\ IsUpdate /\ To \in {"cancelled", "refunded"} /\ IsOk(Call.res)) =>
       ReasonGiven(Call.context.proposed.notes, 0)

\* a pending expense rejected with a reason of nine characters, accepted
C14_Witness ==
  /\ focus = "expenses"
  /\ IsUpdate
  /\ From = "pending"
  /\ To = "rejected"
  /\ Call.context.proposed.notes # NONE
  /\ Len(Chars(Call.context.proposed.notes)) = 9
  /\ StrLen(Call.context.proposed.notes) = 12
  /\ IsOk(Call.res)

\* the sum of the amounts of a list of allocations, from the last one back
RECURSIVE Allocated(_, _)
Allocated(allocations, n) ==
  IF n = 0 THEN 0 ELSE Allocated(allocations, n - 1) + allocations[n].amount

AllocatedTotal == Allocated(Call.context.proposed.fee_allocations,
                            Len(Call.context.proposed.fee_allocations))

\* C15: a payment write accepted by validate_payment_document has between 1
\* and 20 fee allocations whose amounts sum to the payment amount within 0.01;
\* a payment whose allocation sum differs by more than 0.01 is rejected, and
\* when the allocation check answers for a list of 1 to 20 entries, with the
\* error that quotes the payment amount and the sum.
C15_AllocationsReconcile ==
  (focus = "payments" /\ Called) =>
    /\ IsOk(Call.res) =>
         /\ Len(Call.context.proposed.fee_allocations) \in 1..20
         /\ Abs(Call.context.proposed.amount - AllocatedTotal) <= 1
    /\ Abs(Call.context.proposed.amount - AllocatedTotal) > 1 =>
         /\ ~IsOk(Call.res)
         /\ (/\ Call.res.ran[Len(Call.res.ran)] = "validate_payment_allocations"
             /\ Len(Call.context.proposed.fee_allocations) \in 1..20) =>
              /\ Call.res.tag = "Payment amount ({:.2}) must match sum of fee allocations ({:.2})"
              /\ Call.res.args = <<Call.context.proposed.amount, AllocatedTotal>>

\* a payment of 5000.00 allocated 3000.00, rejected with both values quoted
C15_Witness ==
  /\ focus = "payments"
  /\ Called
  /\ Call.context.proposed.amount = 500000
  /\ AllocatedTotal = 300000
  /\ Call.res.args = <<500000, 300000>>
  /\ Call.res.ran[Len(Call.res.ran)] = "validate_payment_allocations"

\* the sum of the amounts of a list of allowances or deductions
RECURSIVE Summed(_, _)
Summed(items, n) == IF n = 0 THEN 0 ELSE Summed(items, n - 1) + items[n].amount

\* basic + sum(allowances) - sum(deductions) of the proposed salary payment
ComputedNet ==
  Call.context.proposed.basic_salary
  + Summed(Call.context.proposed.allowances, Len(Call.context.proposed.allowances))
  - Summed(Call.context.proposed.deductions, Len(Call.context.proposed.deductions))

NetMismatch == "Net salary ({:.2}) doesn't match basic + allowances - deductions ({:.2})"

\* basic 200000.00, allowances 50000.00, deductions 30000.00
ScenarioSalary ==
  /\ Call.context.proposed.basic_salary = 20000000
  /\ Call.context.proposed.allowances = <<Item("housing", 5000000)>>
  /\ Call.context.proposed.deductions = <<Item("tax", 3000000)>>

ApprovalRequired == "APPROVAL REQUIRED: Transfers over {:.2} require approval before completion"

\* a transfer between two different accounts proposed as 'completed' to
\* validate_transfer
CompletedTransfer ==
  /\ focus = "inter_account_transfers"
  /\ Called
  /\ Call.via = "module"
  /\ Call.context.proposed.status = "completed"
  /\ Call.context.proposed.fromAccountId # NONE
  /\ Call.context.proposed.toAccountId # NONE
  /\ Call.context.proposed.fromAccountId # Call.context.proposed.toAccountId

ApproverBlank ==
  \/ Call.context.proposed.approvedBy = NONE
  \/ TrimIsEmpty(Call.context.proposed.approvedBy)

\* C17: a transfer of more than 5,000,000 and at most 1,000,000,000 between
\* two different accounts proposed as 'completed' is rejected with the
\* approval-required error when approvedBy is absent or blank, rejected when
\* approvedAt is absent, and accepted when both are present; a transfer of at
\* most 5,000,000 is accepted as 'completed' without approver fields.
C17_HighValueTransferNeedsApproval ==
  /\ (/\ CompletedTransfer
      /\ Call.context.proposed.amount > 5000000
      /\ Call.context.proposed.amount <= 1000000000) =>
       /\ ApproverBlank => Call.res.tag = ApprovalRequired
       /\ Call.context.proposed.approvedAt = NoTime => ~IsOk(Call.res)
       /\ (~ApproverBlank /\ Call.context.proposed.approvedAt # NoTime) => IsOk(Call.res)
  /\ (/\ CompletedTransfer
      /\ Call.context.proposed.amount > 0
      /\ Call.context.proposed.amount <= 5000000) => IsOk(Call.res)

\* a transfer of 6,000,000 proposed as 'completed' with a blank approver,
\* rejected with the approval-required error
C17_Witness ==
  /\ CompletedTransfer
  /\ Call.context.proposed.amount = 6000000
  /\ Call.context.proposed.approvedBy = "   "
  /\ Call.context.proposed.approvedAt # NoTime
  /\ Call.res.tag = ApprovalRequired

\* a bank transaction with a debit and a credit amount, answered by
\* validate_bank_transaction
LedgerCall ==
  /\ focus = "bank_transactions"
  /\ Called
  /\ Call.via = "module"
  /\ Call.context.proposed.debitAmount # NoAmount
  /\ Call.context.proposed.creditAmount # NoAmount

Debit == Call.context.proposed.debitAmount
Credit == Call.context.proposed.creditAmount

\* C18: validate_bank_transaction accepts a bank transaction only if exactly
\* one of debitAmount and creditAmount is positive and the other is zero; it
\* rejects a transaction with both positive, with both zero and with either
\* negative.
C18_DoubleEntry ==
  /\ (focus = "bank_transactions" /\ Called /\ Call.via = "module" /\ IsOk(Call.res)) =>
       /\ LedgerCall
       /\ \/ Debit > 0 /\ Credit = 0
          \/ Debit = 0 /\ Credit > 0
  /\ LedgerCall =>
       /\ (Debit < 0 \/ Credit < 0) =>
            Call.res.tag = "SECURITY: Transaction amounts cannot be negative"
       /\ (Debit > 0 /\ Credit > 0) =>
            Call.res.tag = "SECURITY: Transaction cannot have both debit and credit amounts"
       /\ (Debit = 0 /\ Credit = 0) =>
            Call.res.tag = "SECURITY: Transaction must have a non-zero amount"

\* a transaction with a debit and a credit of 1000, rejected
C18_Witness ==
  /\ LedgerCall
  /\ Debit = 1000
  /\ Credit = 1000
  /\ Call.res.tag = "SECURITY: Transaction cannot have both debit and credit amounts"

\* the proposed expense names a category that is no key of expense_categories
CategoryMissing ==
  /\ focus = "expenses"
  /\ Called
  /\ Call.context.proposed.category_id \notin DOMAIN store["expense_categories"]

\* the proposed student names a class, not blank, that is no key of classes
ClassMissing ==
  /\ focus = "students"
  /\ Called
  /\ Call.context.proposed.class_id # NONE
  /\ ~TrimIsEmpty(Call.context.proposed.class_id)
  /\ Call.context.proposed.class_id \notin DOMAIN store["classes"]

DanglingPayment ==
  /\ focus = "payments"
  /\ Called
  /\ \/ \E i \in DOMAIN Call.context.proposed.fee_allocations :
          Call.context.proposed.fee_allocations[i].category_id
            \notin DOMAIN store["fee_categories"]
     \/ Call.context.proposed.fee_assignment_id \notin DOMAIN store["fee_assignments"]

\* C20: a payment whose fee allocation names a category_id that is not the
\* key of a fee category, or whose fee_assignment_id is not the key of a fee
\* assignment, is rejected by the payment pipeline.
C20_DanglingPaymentRejected == DanglingPayment => ~IsOk(Call.res)

\* a payment naming a fee category and a fee assignment that do not exist,
\* accepted after the one query of the pipeline, for the reference code
C20_Witness ==
  /\ DanglingPayment
  /\ Call.context.proposed.fee_allocations[1].category_id = "fc9"
  /\ Call.context.proposed.fee_assignment_id = "fa9"
  /\ store["fee_categories"] # <<>>
  /\ store["fee_assignments"] # <<>>
  /\ IsOk(Call.res)
  /\ Call.res.q = <<Query("payments", DescMatcher("reference", <<"PAY-2024-AB12CD34">>))>>

AllPositive(items) == \A i \in DOMAIN items : items[i].amount > 0

\* C21: every monetary amount of an accepted record is strictly positive:
\* the amount of a payment and of each of its fee allocations, the basic
\* salary of a salary run and each of its allowances and deductions, the
\* amount of an expense.
C21_AmountsPositive ==
  (Called /\ IsOk(Call.res)) =>
    /\ focus = "payments" =>
         /\ Call.context.proposed.amount > 0
         /\ AllPositive(Call.context.proposed.fee_allocations)
    /\ focus = "salary_payments" =>
         /\ Call.context.proposed.basic_salary > 0
         /\ AllPositive(Call.context.proposed.allowances)
         /\ AllPositive(Call.context.proposed.deductions)
    /\ focus = "expenses" => Call.context.proposed.amount > 0

\* a payment of 5000.00 allocated as 5000.00 and 0.00, accepted by the
\* payment pipeline of modules/payments and rejected by the amount check of
\* lib.rs
C21_Witness ==
  /\ focus = "payments"
  /\ Called
  /\ Call.via = "module"
  /\ IsOk(Call.res)
  /\ Call.context.proposed.amount = 500000
  /\ Len(Call.context.proposed.fee_allocations) = 2
  /\ Call.context.proposed.fee_allocations[2].amount = 0
  /\ expense_assertions_validate_payment_amounts(Call.context.proposed).tag
       = "Fee allocation {} amount must be greater than zero"
  /\ expense_assertions_validate_payment_amounts(Call.context.proposed).args = <<2>>

\* C22: a committed record in a terminal status is the same in every later
\* committed version of its key: no step changes any of its fields (an
\* update that keeps the terminal status and changes another field is not
\* accepted).
C22_TerminalRecordFrozen ==
  [][\A c \in StatusTypes : \A k \in DOMAIN store[c] :
       store[c][k].status \in TerminalStatuses(c) =>
         /\ k \in DOMAIN store'[c]
         /\ store'[c][k] = store[c][k]]_vars

\* an update of a salary run already 'paid' that keeps the status and names
\* another staff member, accepted and ready to commit
C22_Witness ==
  /\ focus = "salary_payments"
  /\ IsUpdate
  /\ From = "paid"
  /\ To = "paid"
  /\ Call.context.current[1].staff_id = "st1"
  /\ Call.context.proposed.staff_id = "st2"
  /\ IsOk(Call.res)

\* the committed bank accounts under another key that hold the account
\* number of the proposed one
OtherAccountHolders ==
  {k \in DOMAIN store["bank_accounts"] \ {Call.context.key} :
     store["bank_accounts"][k].accountNumber = Call.context.proposed.accountNumber}

\* C23: validate_bank_account rejects a bank-account write whose account
\* number is held by a committed bank account with a different key.
C23_AccountNumberUnique ==
  (focus = "bank_accounts" /\ Called /\ Call.via = "module" /\ OtherAccountHolders # {}) =>
    ~IsOk(Call.res)

\* a second account with the number of the committed one, accepted without a
\* query of the store
C23_Witness ==
  /\ focus = "bank_accounts"
  /\ Called
  /\ Call.via = "module"
  /\ Call.context.key = "k2"
  /\ OtherAccountHolders = {"k1"}
  /\ IsOk(Call.res)
  /\ Call.res.q = <<>>

\* the strings of the form SAL-YYYY-MM-XXXXXX: 18 characters, the prefix, a
\* 4-digit year, a 2-digit month of 01..12, 6 alphanumeric characters
SalaryReferenceForm(reference) ==
  LET cs == Chars(reference) IN
  /\ Len(cs) = 18
  /\ SubSeq(cs, 1, 4) = <<"S", "A", "L", "-">>
  /\ \A i \in 5..8 : cs[i] \in Digits
  /\ cs[9] = "-"
  /\ \A i \in 10..11 : cs[i] \in Digits
  /\ 10 * DigitValue(cs[10]) + DigitValue(cs[11]) \in 1..12
  /\ cs[12] = "-"
  /\ \A i \in 13..18 : is_alphanumeric(cs[i])

\* C24: each copy of is_valid_salary_reference accepts exactly the strings of
\* the form SAL-YYYY-MM-XXXXXX: every such string is accepted and every other
\* string is rejected.
C24_SalaryReferenceShape ==
  (focus = "salary_payments" /\ Called) =>
    /\ is_valid_salary_reference(Call.context.proposed.reference)
         <=> SalaryReferenceForm(Call.context.proposed.reference)
    /\ expense_assertions_is_valid_salary_reference(Call.context.proposed.reference)
         <=> SalaryReferenceForm(Call.context.proposed.reference)

\* a salary run with a reference of the form, accepted by the pipeline of
\* modules/staff, whose reference the copy of lib.rs rejects
C24_Witness ==
  /\ focus = "salary_payments"
  /\ Called
  /\ Call.via = "module"
  /\ IsOk(Call.res)
  /\ Call.context.proposed.reference = "SAL-2024-12-ab12cd"
  /\ SalaryReferenceForm(Call.context.proposed.reference)
  /\ is_valid_salary_reference(Call.context.proposed.reference)
  /\ ~expense_assertions_is_valid_salary_reference(Call.context.proposed.reference)

\* the status of the committed version of key k that this step replaces
\* (NONE when the step creates the record)
StatusBefore(c, k) == IF k \in DOMAIN store[c] THEN store[c][k].status ELSE NONE

\* C25: from the empty store, every step that commits a salary run or an
\* expense as 'paid' replaces a committed version of the same key with status
\* 'approved' (or 'paid'), and every step that commits a payment as
\* 'refunded' replaces a committed version with status 'confirmed' (or
\* 'refunded'): no accepted history skips the intermediate status.
C25_GraphOrder ==
  [][\A c \in StatusTypes : \A k \in DOMAIN store'[c] :
       /\ (c \in {"salary_payments", "expenses"} /\ store'[c][k].status = "paid") =>
            StatusBefore(c, k) \in {"approved", "paid"}
       /\ (c = "payments" /\ store'[c][k].status = "refunded") =>
            StatusBefore(c, k) \in {"confirmed", "refunded"}]_vars

\* a salary run committed as 'paid' in a history that began with the empty
\* store
C25_Witness ==
  /\ focus = "salary_payments"
  /\ \E k \in DOMAIN store["salary_payments"] : store["salary_payments"][k].status = "paid"

\* the staff member and period a salary run pays
StaffPeriod(salary) ==
  <<salary.staff_id, salary.payment_period_start, salary.payment_period_end>>

\* C26: after any sequence of sequentially applied accepted writes, no two
\* committed salary runs with different keys are both 'paid' for the same
\* staff member and period.
C26_OnePaidPerStaffPeriod ==
  \A k1, k2 \in DOMAIN store["salary_payments"] :
    (/\ k1 # k2
     /\ store["salary_payments"][k1].status = "paid"
     /\ store["salary_payments"][k2].status = "paid") =>
      StaffPeriod(store["salary_payments"][k1]) # StaffPeriod(store["salary_payments"][k2])

\* two paid salary runs of different staff members, and an update of one
\* that keeps 'paid' and names the staff member of the other, rejected as a
\* duplicate
C26_Witness ==
  /\ focus = "salary_payments"
  /\ IsUpdate
  /\ From = "paid"
  /\ To = "paid"
  /\ Call.context.current[1].staff_id # Call.context.proposed.staff_id
  /\ \E k \in DOMAIN store["salary_payments"] \ {Call.context.key} :
        /\ store["salary_payments"][k].status = "paid"
        /\ StaffPeriod(store["salary_payments"][k]) = StaffPeriod(Call.context.proposed)
  /\ Call.res.tag = "Staff {} already has a paid salary for period {} to {}"

\* the companion fields of an expense are those of its status
CompanionsMatch(expense) ==
  /\ expense.status \in {"approved", "paid"} =>
       /\ expense.approved_by # NONE
       /\ expense.approved_at # NoTime
  /\ expense.status = "pending" =>
       /\ expense.approved_by = NONE
       /\ expense.approved_at = NoTime
  /\ expense.status = "rejected" =>
       /\ expense.approved_at = NoTime
       /\ expense.notes # NONE
       /\ ~TrimIsEmpty(expense.notes)

\* C27: in every committed expense the companion fields match the status:
\* 'approved' and 'paid' have approved_by and approved_at, 'pending' has
\* neither, 'rejected' has no approved_at and non-blank notes.
C27_CompanionsMatchStatus ==
  \A k \in DOMAIN store["expenses"] : CompanionsMatch(store["expenses"][k])

\* a rewrite of a pending expense that keeps 'pending' and names an approver,
\* rejected by the approval workflow
C27_Witness ==
  /\ focus = "expenses"
  /\ IsUpdate
  /\ From = "pending"
  /\ To = "pending"
  /\ Call.context.proposed.approved_by = "bursar"
  /\ Call.res.tag = "Pending expenses cannot have approved_by field set"

\* the answered attempt submits the committed record of its key again
IsResubmission ==
  /\ IsUpdate
  /\ Call.context.proposed = Call.context.current[1]

EarlierDate(a, b) ==
  LET x == parse_date(a)[1]
      y == parse_date(b)[1]
  IN \/ x[1] < y[1]
     \/ x[1] = y[1] /\ x[2] < y[2]
     \/ x[1] = y[1] /\ x[2] = y[2] /\ x[3] < y[3]

\* C29: validate_salary_payment_period rejects every salary run with
\* shape-valid dates whose payment_period_end, or whose payment_date, is an
\* earlier calendar date than its payment_period_start.
C29_PeriodInCalendarOrder ==
  (/\ focus = "salary_payments"
   /\ Called
   /\ is_valid_date_format(Call.context.proposed.payment_date)
   /\ is_valid_date_format(Call.context.proposed.payment_period_start)
   /\ is_valid_date_format(Call.context.proposed.payment_period_end)
   /\ \/ EarlierDate(Call.context.proposed.payment_period_end,
                     Call.context.proposed.payment_period_start)
      \/ EarlierDate(Call.context.proposed.payment_date,
                     Call.context.proposed.payment_period_start)) =>
    ~IsOk(Call.res)

\* a salary run for the period 2024-02-01 to 2024-01-31, accepted: both dates
\* count as day 31 of the year
C29_Witness ==
  /\ focus = "salary_payments"
  /\ Called
  /\ Call.context.proposed.payment_period_start = "2024-02-01"
  /\ Call.context.proposed.payment_period_end = "2024-01-31"
  /\ Timestamp("2024-01-31") = Timestamp("2024-02-01")
  /\ InSeq("validate_salary_payment_period", Call.res.ran)
  /\ IsOk(Call.res)

\* the year of a shape-valid date
YearOf(date) == parse_date(date)[1][1]

\* the timestamp computation of the employment date of the answered attempt
EmploymentTimestamp ==
  LET p == parse_date(Call.context.proposed.employment_date)[1]
  IN date_to_timestamp(p[1], p[2], p[3])

\* C30: for every shape-valid employment date the date-window checks neither
\* underflow, overflow nor trap; a date before 1970 is answered as more than
\* 50 years in the past and a date in year 9999 as more than 30 days in the
\* future.
C30_DateWindowWrapFree ==
  (/\ focus = "staff"
   /\ Called
   /\ InSeq(Call.context.proposed.employment_type, EmploymentTypes)
   /\ is_valid_date_format(Call.context.proposed.employment_date)
   /\ InSeq("validate_staff_employment_details", Call.res.ran)) =>
    /\ ~EmploymentTimestamp.overflow
    /\ Call.res.tag # "panicked"
    /\ YearOf(Call.context.proposed.employment_date) < 1970 =>
         Call.res.tag = "Employment date cannot be more than 50 years in the past"
    /\ YearOf(Call.context.proposed.employment_date) = 9999 =>
         Call.res.tag = "Employment date cannot be more than 30 days in the future"

\* a staff record employed on 1960-01-01 in a build that checks overflow: the
\* subtraction year - 1970 panics
C30_Witness ==
  /\ focus = "staff"
  /\ Called
  /\ overflow_checks
  /\ Call.context.proposed.employment_date = "1960-01-01"
  /\ EmploymentTimestamp.overflow
  /\ Call.res.tag = "panicked"

====
